---- MODULE Spec2Model ----
(***************************************************************************)
(* A model of the content-generation workflow: the shared SystemState, the *)
(* five agents of src/agents, the LangGraph DAG of                        *)
(* src/orchestration/graph.py with its error gate, the step-by-step        *)
(* executor of src/orchestration/execution.py, and the comparison scorer   *)
(* of src/logic_blocks/comparison_block.py, the template engine of         *)
(* src/templates/template_engine.py, the benefit and ingredient blocks on  *)
(* their own, and the output validation and saving of main.py.             *)
(*                                                                         *)
(* Conventions.  A Python str on which the code does substring, case or    *)
(* split operations is a sequence of one-character strings; a str that is  *)
(* only compared or embedded is a TLA+ string.  A dict is a function whose *)
(* DOMAIN is its set of keys.  A call that may raise returns Ok(v) or      *)
(* Err(e); try/except is the case split on .ok.  Python's None is None.    *)
(* A list that the code mutates in place (errors, execution_log) lives in  *)
(* heap and the dict holds its index, so that a shallow copy shares it.    *)
(* A price is an integer number of 1/Subunits rupee.                       *)
(***************************************************************************)
EXTENDS Integers, Sequences, FiniteSets, TLC

VARIABLES
    mode,        \* "graph": execute_workflow; "step_by_step": execute_workflow_step_by_step
    pc,          \* the node about to run, "route" (the conditional edge), or "END"
    state,       \* the SystemState dict threaded through the agents
    heap,        \* the mutable lists: heap[i] is the content of list object i
    states,      \* execute_workflow_step_by_step's dict of state.copy() snapshots
    api_key,     \* whether OPENAI_API_KEY is set in the environment
    trace,       \* history: the nodes executed so far, in order
    llm_calls,   \* history: the outcome of every llm.invoke so far
    raised,      \* history: an exception has propagated out of an agent
    gate,        \* history: what the conditional edge saw and where it routed
    validation,  \* main: the report of validate_workflow_output, or None
    files        \* main: the file names save_outputs has written, or None

wf_vars == <<mode, pc, state, heap, states, api_key, trace, llm_calls, raised, gate,
             validation, files>>

VARIABLES
    product_a,   \* scorer harness: first argument of generate_comparison_block
    product_b,   \* scorer harness: second argument
    comparison,  \* scorer harness: generate_comparison_block(product_a, product_b), or None
    swapped      \* scorer harness: generate_comparison_block(product_b, product_a), or None

sc_vars == <<product_a, product_b, comparison, swapped>>

VARIABLES
    engine,         \* template harness: TemplateEngine.registered_blocks
    render_call,    \* template harness: the render call made and its arguments, or None
    render_result   \* template harness: what that call returned or raised, or None

en_vars == <<engine, render_call, render_result>>

VARIABLES
    block_call,     \* block harness: the logic-block call made and its arguments, or None
    block_result    \* block harness: what that call returned or raised, or None

bl_vars == <<block_call, block_result>>

vars == <<mode, pc, state, heap, states, api_key, trace, llm_calls, raised, gate,
          validation, files,
          product_a, product_b, comparison, swapped,
          engine, render_call, render_result,
          block_call, block_result>>

(***************************************************************************)
(* Bounds of the model.                                                    *)
(***************************************************************************)
\* Prices lie on a grid of 1/Subunits rupee (2: half rupees).
Subunits == 2
\* The structured LLM returns at most this many questions.
MaxQuestions == 2

(***************************************************************************)
(* Python values.                                                          *)
(***************************************************************************)
\* Bind(e, LAMBDA x : body) is the statement pair "x = e; body": e is
\* evaluated once, to a value, before body is.
Bind(v, F(_)) == CHOOSE y \in {F(x) : x \in {v}} : TRUE

None == [py_none |-> TRUE]
Ok(v) == [ok |-> TRUE, val |-> v]
Err(e) == [ok |-> FALSE, exc |-> e]

\* dict operations: `k in d`, d.get(k, default), d[k] = v
Has(d, k) == k \in DOMAIN d
Get(d, k, default) == IF k \in DOMAIN d THEN d[k] ELSE default
Put(d, k, v) == [x \in (DOMAIN d) \cup {k} |-> IF x = k THEN v ELSE d[x]]

(***************************************************************************)
(* str operations on character sequences.                                  *)
(***************************************************************************)
UpperCase == <<"A", "B", "C", "D", "E", "F", "G", "H", "I", "J", "K", "L", "M", "N", "O", "P", "Q", "R", "S", "T", "U", "V", "W", "X", "Y", "Z">>
LowerCase == <<"a", "b", "c", "d", "e", "f", "g", "h", "i", "j", "k", "l", "m", "n", "o", "p", "q", "r", "s", "t", "u", "v", "w", "x", "y", "z">>
Digits == {"0", "1", "2", "3", "4", "5", "6", "7", "8", "9"}

lower_char(c) ==
    IF \E i \in DOMAIN UpperCase : UpperCase[i] = c
    THEN LowerCase[CHOOSE i \in DOMAIN UpperCase : UpperCase[i] = c]
    ELSE c

\* A lower() that leaves the text as it is.
lower_unchanged(s) == s

\* s.lower()
lower(s) == [i \in 1..Len(s) |-> lower_char(s[i])]

\* `sub in s`
contains(s, sub) ==
    \E i \in 0..(Len(s) - Len(sub)) : SubSeq(s, i + 1, i + Len(sub)) = sub

\* s.find(c) and s.rfind(c) for a one-character c: a 0-based index, or -1
find(s, c) ==
    IF \E i \in 1..Len(s) : s[i] = c
    THEN (CHOOSE i \in 1..Len(s) : s[i] = c /\ \A j \in 1..(i - 1) : s[j] # c) - 1
    ELSE -1
rfind(s, c) ==
    IF \E i \in 1..Len(s) : s[i] = c
    THEN (CHOOSE i \in 1..Len(s) : s[i] = c /\ \A j \in (i + 1)..Len(s) : s[j] # c) - 1
    ELSE -1

\* s[i:j] with 0 <= i
slice(s, i, j) == SubSeq(s, i + 1, IF j > Len(s) THEN Len(s) ELSE j)

\* s.strip()
strip(s) ==
    IF \A i \in 1..Len(s) : s[i] = " " THEN <<>>
    ELSE LET first == CHOOSE i \in 1..Len(s) : s[i] # " " /\ \A j \in 1..(i - 1) : s[j] = " "
             last == CHOOSE i \in 1..Len(s) : s[i] # " " /\ \A j \in (i + 1)..Len(s) : s[j] = " "
         IN SubSeq(s, first, last)

\* s.split(c)[0] for a one-character separator: the text before its first occurrence
split_first(s, c) ==
    Bind(find(s, c), LAMBDA i : IF i < 0 THEN s ELSE SubSeq(s, 1, i))

\* s.split()[0]: the first whitespace-delimited word of a non-blank s
first_word(s) == Bind(strip(s), LAMBDA t : split_first(t, " "))

RECURSIVE digits_value(_)
digits_value(s) ==
    IF s = <<>> THEN 0
    ELSE 10 * digits_value(SubSeq(s, 1, Len(s) - 1))
         + (CHOOSE d \in 0..9 : ToString(d) = s[Len(s)])

\* float(s) for the literals the model uses: optional surrounding blanks around
\* a non-empty run of decimal digits; anything else raises ValueError
float_of(s) ==
    Bind(strip(s), LAMBDA t :
    IF t # <<>> /\ \A i \in 1..Len(t) : t[i] \in Digits
    THEN Ok(digits_value(t))
    ELSE Err("ValueError"))

(***************************************************************************)
(* src/models/product.py                                                   *)
(***************************************************************************)
ProductFields ==
    {"name", "concentration", "skin_types", "ingredients", "benefits",
     "usage", "side_effects", "price"}

\* A ProductModel without validate_non_empty_list.
ProductModel_without_list_validator(data) ==
    IF \E f \in ProductFields : ~Has(data, f) THEN Err("ValidationError")
    ELSE IF \E f \in {"name", "concentration", "usage", "side_effects"} :
                strip(data[f]) = <<>>
    THEN Err("ValidationError")
    ELSE IF ~(data.price > 0) THEN Err("ValidationError")
    ELSE Ok([name |-> strip(data.name),
             concentration |-> strip(data.concentration),
             skin_types |-> data.skin_types,
             ingredients |-> data.ingredients,
             benefits |-> data.benefits,
             usage |-> strip(data.usage),
             side_effects |-> strip(data.side_effects),
             price |-> data.price])

\* ProductModel(**data): the validated record, or pydantic's ValidationError.
\* Every field is required; the three lists must be non-empty; the four
\* strings must be non-blank and are stored stripped; price > 0.
ProductModel(data) ==
    IF \E f \in ProductFields : ~Has(data, f) THEN Err("ValidationError")
    ELSE IF \E f \in {"skin_types", "ingredients", "benefits"} : data[f] = <<>>
    THEN Err("ValidationError")
    ELSE IF \E f \in {"name", "concentration", "usage", "side_effects"} :
                strip(data[f]) = <<>>
    THEN Err("ValidationError")
    ELSE IF ~(data.price > 0) THEN Err("ValidationError")
    ELSE Ok([name |-> strip(data.name),
             concentration |-> strip(data.concentration),
             skin_types |-> data.skin_types,
             ingredients |-> data.ingredients,
             benefits |-> data.benefits,
             usage |-> strip(data.usage),
             side_effects |-> strip(data.side_effects),
             price |-> data.price])

(***************************************************************************)
(* src/orchestration/state.py                                              *)
(***************************************************************************)
EmptyDict == <<>>

\* A list_append that inserts the item at the front of the list.
list_prepend(st, hp, key, item) ==
    Bind(IF Has(st, key) THEN hp ELSE Append(hp, <<>>), LAMBDA hp1 :
    Bind(IF Has(st, key) THEN st[key] ELSE Len(hp1), LAMBDA id :
    [state |-> Put(st, key, id),
     heap |-> [hp1 EXCEPT ![id] = <<item>> \o @]]))

\* The pattern  x = state.get(key, []); x.append(item); state[key] = x :
\* the list object the dict holds is extended in place (a new list object
\* is made only when the key is absent).
list_append(st, hp, key, item) ==
    Bind(IF Has(st, key) THEN hp ELSE Append(hp, <<>>), LAMBDA hp1 :
    Bind(IF Has(st, key) THEN st[key] ELSE Len(hp1), LAMBDA id :
    [state |-> Put(st, key, id),
     heap |-> [hp1 EXCEPT ![id] = Append(@, item)]]))

create_initial_state(raw_data) ==
    [state |-> [raw_data |-> raw_data, errors |-> 1, execution_log |-> 2],
     heap |-> << <<>>, << <<"Workflow started">> >> >>]

\* An add_error that writes the log entry only.
add_error_log_only(st, hp, error_message) ==
    list_append(st, hp, "execution_log", <<"Error: ", error_message>>)

\* An add_error that records the message twice.
add_error_twice(st, hp, error_message) ==
    Bind(list_append(st, hp, "errors", error_message), LAMBDA a :
    Bind(list_append(a.state, a.heap, "errors", error_message), LAMBDA b :
    list_append(b.state, b.heap, "execution_log", <<"Error: ", error_message>>)))

add_error(st, hp, error_message) ==
    Bind(list_append(st, hp, "errors", error_message), LAMBDA a :
    list_append(a.state, a.heap, "execution_log", <<"Error: ", error_message>>))

\* state.get("errors", []) and state.get("execution_log", []) as values
errors_of(st, hp) == IF Has(st, "errors") THEN hp[st.errors] ELSE <<>>
log_of(st, hp) == IF Has(st, "execution_log") THEN hp[st.execution_log] ELSE <<>>

has_errors(st, hp) == Len(errors_of(st, hp)) > 0

(***************************************************************************)
(* What an agent call leaves behind: the state dict it returns, the heap,  *)
(* the llm.invoke outcomes it consumed, and whether it raised instead of   *)
(* returning.                                                              *)
(***************************************************************************)
Returned(st, hp, calls) == [state |-> st, heap |-> hp, calls |-> calls, raised |-> FALSE]
Propagated(st, hp, calls) == [state |-> st, heap |-> hp, calls |-> calls, raised |-> TRUE]

\* An except clause that returns the state without recording the error.
swallowed(st, hp, calls, prefix, exc) == Returned(st, hp, calls)

\* An agent without its except clause.
not_caught(st, hp, calls, prefix, exc) == Propagated(st, hp, calls)

\* except Exception as e: state = add_error(state, f"{prefix}{e}"); return state
caught(st, hp, calls, prefix, exc) ==
    Bind(add_error(st, hp, <<prefix, exc>>), LAMBDA a :
    Returned(a.state, a.heap, calls))

(***************************************************************************)
(* src/agents/data_parser.py                                               *)
(***************************************************************************)
\* The try block of data_parser_agent.
data_parser_try(st, hp) ==
    Bind(Get(st, "raw_data", EmptyDict), LAMBDA raw_data :
    IF raw_data = None THEN Err("TypeError")          \* len(raw_data)
    ELSE
    Bind(ProductModel(raw_data), LAMBDA p :
    IF ~p.ok THEN Err(p.exc)
    ELSE
    Bind(Put(st, "product", p.val), LAMBDA st1 :
    Ok(list_append(st1, hp, "execution_log",
           <<"Agent 1 (Data Parser): Product validated - ", p.val.name>>)))))

data_parser_agent(st, hp) ==
    Bind(data_parser_try(st, hp), LAMBDA r :
    IF r.ok THEN Returned(r.val.state, r.val.heap, <<>>)
    ELSE IF r.exc = "ValidationError"
    THEN caught(st, hp, <<>>, "Product validation failed: ", r.exc)
    ELSE caught(st, hp, <<>>, "Unexpected error in data parser: ", r.exc))

(***************************************************************************)
(* src/utils/llm_client.py and the LLM collaborator.                       *)
(*                                                                         *)
(* get_llm and get_structured_llm raise ValueError when OPENAI_API_KEY is  *)
(* not set.  llm.invoke(prompt) is an input of the model: a reply is       *)
(*   [kind |-> "throw"]                     the call raises;               *)
(*   [kind |-> "text", content, json]       a message whose .content is    *)
(*       the character sequence content; json is what json.loads gives for *)
(*       the part of content the caller cuts out (Ok(value) or             *)
(*       Err("JSONDecodeError"));                                          *)
(*   [kind |-> "object", val]               a structured-output result.    *)
(***************************************************************************)
get_llm(key) == IF key THEN Ok("llm") ELSE Err("ValueError")
get_structured_llm(key) == IF key THEN Ok("structured_llm") ELSE Err("ValueError")

Call(site, reply) == [site |-> site, reply |-> reply]

TryOk(st, hp, calls) == [ok |-> TRUE, state |-> st, heap |-> hp, calls |-> calls]
TryErr(exc, calls) == [ok |-> FALSE, exc |-> exc, calls |-> calls]

\* What a helper that may raise, return a value, or run off its end (and so
\* return None) gives back, with the llm.invoke outcomes it consumed.
RetVal(v, calls) == [ok |-> TRUE, none |-> FALSE, val |-> v, calls |-> calls]
RetNone(calls) == [ok |-> TRUE, none |-> TRUE, calls |-> calls]

\* The extraction every JSON-expecting caller repeats:
\*   start_idx = content.find('{'); end_idx = content.rfind('}') + 1
\*   if start_idx >= 0 and end_idx > start_idx: json.loads(content[start_idx:end_idx])
\* has_json_span is the if; json_loads is the parser's verdict on the span.
has_json_span(content) ==
    Bind(find(content, "{"), LAMBDA start_idx :
    Bind(rfind(content, "}") + 1, LAMBDA end_idx :
    start_idx >= 0 /\ end_idx > start_idx))
json_loads(reply) == reply.json

(***************************************************************************)
(* src/agents/question_generator.py                                        *)
(***************************************************************************)
\* The try block of question_generator_agent; reply is what llm.invoke gives.
question_generator_try(st, hp, key, reply) ==
    IF ~Has(st, "product")
    THEN Bind(add_error(st, hp, <<"Product not found in state">>), LAMBDA a :
         TryOk(a.state, a.heap, <<>>))
    ELSE IF ~get_structured_llm(key).ok THEN TryErr("ValueError", <<>>)
    ELSE IF reply.kind = "throw" THEN TryErr("APIError", <<Call("questions", reply)>>)
    ELSE
    Bind(reply.val, LAMBDA result :
    \* result.questions if hasattr(result, 'questions') else []
    Bind(IF Has(result, "questions") THEN result.questions ELSE <<>>, LAMBDA questions :
    Bind(Put(st, "questions", questions), LAMBDA st1 :
    Bind(list_append(st1, hp, "execution_log",
             <<"Agent 2 (Question Generator): Generated ", Len(questions), " questions">>),
         LAMBDA a :
    TryOk(a.state, a.heap, <<Call("questions", reply)>>)))))

question_generator_agent(st, hp, key, reply) ==
    Bind(question_generator_try(st, hp, key, reply), LAMBDA r :
    IF r.ok THEN Returned(r.state, r.heap, r.calls)
    ELSE caught(st, hp, r.calls, "Question generation failed: ", r.exc))

(***************************************************************************)
(* src/agents/faq_generator.py                                             *)
(***************************************************************************)
\* max_count passed by faq_generator_agent
FAQ_MAX_COUNT == 10

\* The categories of qs in the order of their first occurrence (the key
\* order of by_category).
RECURSIVE category_order(_)
category_order(qs) ==
    IF qs = <<>> THEN <<>>
    ELSE Bind(category_order(SubSeq(qs, 1, Len(qs) - 1)), LAMBDA rest :
         Bind(qs[Len(qs)].category, LAMBDA c :
         IF \E i \in 1..Len(rest) : rest[i] = c THEN rest ELSE Append(rest, c)))

\* selected.extend(cats_questions[:per_category]) for the categories in order
RECURSIVE take_per_category(_, _, _)
take_per_category(qs, cats, per_category) ==
    IF cats = <<>> THEN <<>>
    ELSE LET InCat(q) == q.category = cats[1] IN
         Bind(SelectSeq(qs, InCat), LAMBDA cats_questions :
         Bind(Tail(cats), LAMBDA rest :
         slice(cats_questions, 0, per_category)
         \o take_per_category(qs, rest, per_category)))

\* A selection that keeps the first max_count questions.
_select_first_questions(questions, max_count) == slice(questions, 0, max_count)

_select_best_questions(questions, max_count) ==
    IF Len(questions) <= max_count THEN questions
    ELSE Bind(category_order(questions), LAMBDA by_category :
         Bind(max_count \div Len(by_category), LAMBDA per_category :
         Bind(take_per_category(questions, by_category, per_category), LAMBDA selected :
         slice(selected, 0, max_count))))

\* The answer text: the branch taken and the product data it embeds.  Every
\* branch's fixed text alone is longer than the 20 characters
\* QuestionAnswerModel asks of an answer.
_generate_fallback_answer(product, question) ==
    Bind(lower(question.category), LAMBDA category :
    IF contains(category, <<"u", "s", "a", "g", "e">>)
    THEN <<"This product should be used as follows: ", product.usage>>
    ELSE IF contains(category, <<"s", "a", "f", "e", "t", "y">>)
    THEN <<"Safety information: ", product.side_effects>>
    ELSE IF contains(category, <<"i", "n", "g", "r", "e", "d", "i", "e", "n", "t">>)
    THEN <<"This product contains: ", product.ingredients>>
    ELSE IF contains(category, <<"p", "r", "i", "c", "e">>) \/ contains(category, <<"p", "u", "r", "c", "h", "a", "s", "e">>)
    THEN <<"This product is priced at Rs", product.price>>
    ELSE IF contains(category, <<"b", "e", "n", "e", "f", "i", "t">>)
    THEN <<"The key benefits of this product include: ", product.benefits>>
    ELSE <<product.name, " is designed for ", product.skin_types, " skin types.">>)

fallback_pairs(product, questions) ==
    [i \in 1..Len(questions) |->
        Bind(questions[i], LAMBDA q :
        [question |-> q.question,
         answer |-> _generate_fallback_answer(product, q),
         category |-> q.category])]

\* A _generate_answers that answers every question with the reply's content.
_generate_answers_from_reply(product, questions, key, reply) ==
    IF ~get_llm(key).ok THEN TryErr("ValueError", <<>>)
    ELSE IF reply.kind = "throw"
    THEN RetVal(fallback_pairs(product, questions), <<Call("answers", reply)>>)
    ELSE RetVal([i \in 1..Len(questions) |->
                    [question |-> questions[i].question,
                     answer |-> reply.content,
                     category |-> questions[i].category]],
                <<Call("answers", reply)>>)

\* get_llm is called before the try; the reply's content is read and dropped,
\* and both the try body and the except handler build the fallback answers.
_generate_answers(product, questions, key, reply) ==
    IF ~get_llm(key).ok THEN TryErr("ValueError", <<>>)
    ELSE RetVal(fallback_pairs(product, questions), <<Call("answers", reply)>>)

\* A faq_generator_agent try block without the test for missing questions.
faq_generator_try_without_questions_test(st, hp, key, reply) ==
    IF ~Has(st, "product")
    THEN Bind(add_error(st, hp, <<"Product not found in state">>), LAMBDA a :
         TryOk(a.state, a.heap, <<>>))
    ELSE
    Bind(st.product, LAMBDA product :
    Bind(Get(st, "questions", <<>>), LAMBDA questions :
    Bind(_select_best_questions(questions, FAQ_MAX_COUNT), LAMBDA selected_questions :
    Bind(_generate_answers(product, selected_questions, key, reply), LAMBDA qna :
    IF ~qna.ok THEN TryErr(qna.exc, qna.calls)
    ELSE
    Bind([page_type |-> "faq", product_name |-> product.name, faqs |-> qna.val],
         LAMBDA faq_page :
    Bind(Put(st, "faq_page", faq_page), LAMBDA st1 :
    Bind(list_append(st1, hp, "execution_log",
             <<"Agent 4 (FAQ Generator): Generated FAQ with ", Len(qna.val), " Q&A pairs">>),
         LAMBDA a :
    TryOk(a.state, a.heap, qna.calls))))))))

\* The try block of faq_generator_agent.  generated_at, a clock reading, is
\* left out of the page.
faq_generator_try(st, hp, key, reply) ==
    IF ~Has(st, "product")
    THEN Bind(add_error(st, hp, <<"Product not found in state">>), LAMBDA a :
         TryOk(a.state, a.heap, <<>>))
    ELSE IF Get(st, "questions", <<>>) = <<>>
    THEN Bind(add_error(st, hp, <<"Questions not found in state">>), LAMBDA a :
         TryOk(a.state, a.heap, <<>>))
    ELSE
    Bind(st.product, LAMBDA product :
    Bind(st.questions, LAMBDA questions :
    Bind(_select_best_questions(questions, FAQ_MAX_COUNT), LAMBDA selected_questions :
    Bind(_generate_answers(product, selected_questions, key, reply), LAMBDA qna :
    IF ~qna.ok THEN TryErr(qna.exc, qna.calls)
    ELSE
    Bind([page_type |-> "faq", product_name |-> product.name, faqs |-> qna.val],
         LAMBDA faq_page :
    Bind(Put(st, "faq_page", faq_page), LAMBDA st1 :
    Bind(list_append(st1, hp, "execution_log",
             <<"Agent 4 (FAQ Generator): Generated FAQ with ", Len(qna.val), " Q&A pairs">>),
         LAMBDA a :
    TryOk(a.state, a.heap, qna.calls))))))))

faq_generator_agent(st, hp, key, reply) ==
    Bind(faq_generator_try(st, hp, key, reply), LAMBDA r :
    IF r.ok THEN Returned(r.state, r.heap, r.calls)
    ELSE caught(st, hp, r.calls, "FAQ generation failed: ", r.exc))

(***************************************************************************)
(* src/logic_blocks/benefit_block.py                                       *)
(***************************************************************************)
_generate_benefit_block_rule_based(product) ==
    Bind(product.benefits, LAMBDA benefits :
    [title |-> "Key Benefits",
     benefits |-> [i \in 1..Len(benefits) |->
                      [benefit |-> benefits[i],
                       description |-> <<"Experience the power of ",
                                         lower(benefits[i]),
                                         " with our advanced formula.">>,
                       relevance |-> "High"]],
     summary |-> <<"This product delivers ", Len(benefits),
                   " proven benefits for ", product.skin_types, " skin.">>])

\* A parsed JSON object that the caller iterates with .items() is a sequence
\* of [key, value] records in document order.
\* Returns Ok(content mapping), Ok(None) when the function runs off its end
\* (no JSON span in the reply), or the ValueError of get_llm.
_generate_benefit_block_with_llm(product, key, reply) ==
    IF ~get_llm(key).ok THEN TryErr("ValueError", <<>>)
    ELSE Bind(<<Call("benefit", reply)>>, LAMBDA calls :
         IF reply.kind = "throw"
         THEN RetVal(_generate_benefit_block_rule_based(product), calls)
         ELSE IF has_json_span(reply.content)
         THEN IF json_loads(reply).ok
              THEN Bind(json_loads(reply).val, LAMBDA benefit_dict :
                   Bind([i \in 1..Len(benefit_dict) |->
                            [benefit |-> benefit_dict[i].key,
                             description |-> benefit_dict[i].value,
                             relevance |-> "High"]],
                        LAMBDA benefit_details :
                   RetVal([title |-> "Key Benefits",
                           benefits |-> benefit_details,
                           summary |-> <<"This product delivers ", Len(benefit_details),
                                         " proven benefits for ", product.skin_types,
                                         " skin.">>],
                          calls)))
              ELSE RetVal(_generate_benefit_block_rule_based(product), calls)
         ELSE RetNone(calls))

generate_benefit_block(product, use_llm, key, reply) ==
    IF use_llm
    THEN _generate_benefit_block_with_llm(product, key, reply)
    ELSE RetVal(_generate_benefit_block_rule_based(product), <<>>)

(***************************************************************************)
(* src/logic_blocks/ingredient_block.py                                    *)
(***************************************************************************)
INGREDIENT_KNOWLEDGE ==
    << [key |-> <<"v", "i", "t", "a", "m", "i", "n", " ", "c">>,
        function |-> "Powerful antioxidant that brightens and protects skin",
        benefits |-> <<"Brightening", "Antioxidant protection", "Collagen synthesis">>],
       [key |-> <<"h", "y", "a", "l", "u", "r", "o", "n", "i", "c", " ", "a", "c", "i", "d">>,
        function |-> "Humectant that holds up to 1000x its weight in water",
        benefits |-> <<"Deep hydration", "Plumping effect", "Moisture retention">>],
       [key |-> <<"n", "i", "a", "c", "i", "n", "a", "m", "i", "d", "e">>,
        function |-> "Vitamin B3 that strengthens skin barrier",
        benefits |-> <<"Oil control", "Pore minimizing", "Barrier support">>],
       [key |-> <<"r", "e", "t", "i", "n", "o", "l">>,
        function |-> "Vitamin A derivative that promotes cell renewal",
        benefits |-> <<"Anti-aging", "Texture improvement", "Wrinkle reduction">>],
       [key |-> <<"s", "a", "l", "i", "c", "y", "l", "i", "c", " ", "a", "c", "i", "d">>,
        function |-> "Beta hydroxy acid that exfoliates deep in pores",
        benefits |-> <<"Acne control", "Pore cleansing", "Texture smoothing">>] >>

is_known_ingredient(ing_lower) ==
    \E i \in DOMAIN INGREDIENT_KNOWLEDGE : INGREDIENT_KNOWLEDGE[i].key = ing_lower
knowledge_of(ing_lower) ==
    INGREDIENT_KNOWLEDGE[CHOOSE i \in DOMAIN INGREDIENT_KNOWLEDGE :
                             INGREDIENT_KNOWLEDGE[i].key = ing_lower]

IsKnown(ingredient) == Bind(lower(ingredient), LAMBDA ing_lower : is_known_ingredient(ing_lower))
IsUnknown(ingredient) == ~IsKnown(ingredient)

\* First pass of generate_ingredient_block: the entries of the ingredients
\* found in the knowledge base, and the ingredients not found.
known_details(product) ==
    Bind(SelectSeq(product.ingredients, IsKnown), LAMBDA known :
    [i \in 1..Len(known) |->
        Bind(lower(known[i]), LAMBDA ing_lower :
        Bind(knowledge_of(ing_lower), LAMBDA info :
        [ingredient |-> known[i],
         function |-> info.function,
         benefits |-> info.benefits]))])
unknown_ingredients(product) == SelectSeq(product.ingredients, IsUnknown)

\* Returns Ok(list), Ok(None) when the function runs off its end (no JSON
\* span in the reply), or the ValueError of get_llm.  An info that is not a
\* JSON object makes info.get raise inside the try: the handler returns [].
_get_ingredient_info_from_llm(ingredients, product, key, reply) ==
    IF ~get_llm(key).ok THEN TryErr("ValueError", <<>>)
    ELSE Bind(<<Call("ingredient", reply)>>, LAMBDA calls :
         IF reply.kind = "throw" THEN RetVal(<<>>, calls)
         ELSE IF has_json_span(reply.content)
         THEN IF json_loads(reply).ok
              THEN Bind(json_loads(reply).val, LAMBDA ingredient_dict :
                   IF \E i \in 1..Len(ingredient_dict) : ~ingredient_dict[i].value.is_object
                   THEN RetVal(<<>>, calls)
                   ELSE RetVal([i \in 1..Len(ingredient_dict) |->
                                   Bind(ingredient_dict[i].value.fields, LAMBDA info :
                                   [ingredient |-> ingredient_dict[i].key,
                                    function |-> Get(info, "function", "Active ingredient"),
                                    benefits |-> Get(info, "benefits", <<>>)])],
                               calls))
              ELSE RetVal(<<>>, calls)
         ELSE RetNone(calls))

\* The generic entry of an ingredient the knowledge base does not hold.
generic_details(product, unknown) ==
    [i \in 1..Len(unknown) |->
        [ingredient |-> unknown[i],
         function |-> <<"Active ingredient in ", product.name>>,
         benefits |-> <<"Part of proprietary formula">>]]

\* ingredient_details.extend(None) raises TypeError.
generate_ingredient_block(product, use_llm, key, reply) ==
    LET Block(details, calls) ==
            RetVal([title |-> "Key Ingredients",
                    ingredients |-> details,
                    summary |-> <<"Formulated with ", Len(product.ingredients),
                                  " science-backed ingredients">>],
                   calls)
    IN Bind(known_details(product), LAMBDA ingredient_details :
       Bind(unknown_ingredients(product), LAMBDA unknown :
       IF unknown # <<>> /\ use_llm
       THEN Bind(_get_ingredient_info_from_llm(unknown, product, key, reply),
                 LAMBDA llm_details :
            IF ~llm_details.ok THEN llm_details
            ELSE IF llm_details.none THEN TryErr("TypeError", llm_details.calls)
            ELSE Bind(ingredient_details \o llm_details.val, LAMBDA details :
                 Block(details, llm_details.calls)))
       ELSE Block(ingredient_details \o generic_details(product, unknown), <<>>)))

(***************************************************************************)
(* Number formatting.  int(x) truncates toward zero; "{x:.0f}" rounds to   *)
(* the nearest integer, a tie to the even one (the tie is taken on the     *)
(* exact quotient, not on its binary floating-point value).                *)
(***************************************************************************)
abs(n) == IF n < 0 THEN -n ELSE n
\* math.floor(n / d) for d > 0
py_floor(n, d) == n \div d
\* int(n / d) for d > 0
py_int(n, d) == IF n >= 0 THEN n \div d ELSE -((-n) \div d)
\* round(n / d) for d > 0
round_half_even(n, d) ==
    LET m == abs(n)
        q == m \div d
        r == m % d
        up == (2 * r > d) \/ (2 * r = d /\ q % 2 = 1)
        v == IF up THEN q + 1 ELSE q
    IN IF n < 0 THEN -v ELSE v

(***************************************************************************)
(* src/logic_blocks/usage_block.py  (texts abbreviated to their opening    *)
(* words; the en-dash spelling of "2-3 drops" is not among the inputs)     *)
(***************************************************************************)
_determine_frequency(usage_text) ==
    IF contains(usage_text, <<"o", "n", "c", "e">>) THEN "Once daily"
    ELSE IF contains(usage_text, <<"t", "w", "i", "c", "e">>) \/ contains(usage_text, <<"m", "o", "r", "n", "i", "n", "g", " ", "a", "n", "d", " ", "e", "v", "e", "n", "i", "n", "g">>)
    THEN "Twice daily"
    ELSE IF contains(usage_text, <<"m", "o", "r", "n", "i", "n", "g">>) THEN "Once daily (morning)"
    ELSE IF contains(usage_text, <<"e", "v", "e", "n", "i", "n", "g">>) \/ contains(usage_text, <<"n", "i", "g", "h", "t">>)
    THEN "Once daily (evening)"
    ELSE "Daily"

_generate_application_steps(product, amount, timing) ==
    <<[step |-> 1, action |-> "Cleanse"],
      [step |-> 2, action |-> "Apply Serum", amount |-> amount],
      [step |-> 3, action |-> "Massage"],
      [step |-> 4, action |-> "Wait"],
      IF timing = "Morning"
      THEN [step |-> 5, action |-> "Apply Sunscreen"]
      ELSE [step |-> 5, action |-> "Moisturize"]>>

_generate_usage_tips(product) ==
    (IF \E i \in 1..Len(product.ingredients) :
            Bind(lower(product.ingredients[i]), LAMBDA ing : contains(ing, <<"v", "i", "t", "a", "m", "i", "n", " ", "c">>))
     THEN <<"Vitamin C works best on clean skin", "Store in a cool place">>
     ELSE <<>>)
    \o (IF \E i \in 1..Len(product.skin_types) : product.skin_types[i] = "Oily"
        THEN <<"Use lightweight moisturizer after application">> ELSE <<>>)
    \o (IF (\E i \in 1..Len(product.skin_types) : product.skin_types[i] = "Sensitive")
           \/ Bind(lower(product.side_effects), LAMBDA text : contains(text, <<"s", "e", "n", "s", "i", "t", "i", "v", "e">>))
        THEN <<"Start with use 2-3 times per week", "Do patch test on inner arm first">>
        ELSE <<>>)
    \o <<"Consistency is key", "Visible results typically appear within 2-4 weeks">>

generate_usage_block(product) ==
    Bind(lower(product.usage), LAMBDA usage_text :
    Bind(IF contains(usage_text, <<"m", "o", "r", "n", "i", "n", "g">>) THEN "Morning"
         ELSE IF contains(usage_text, <<"e", "v", "e", "n", "i", "n", "g">>) \/ contains(usage_text, <<"n", "i", "g", "h", "t">>)
         THEN "Evening"
         ELSE "Daily",
         LAMBDA timing :
    Bind(IF timing = "Morning" THEN "after cleansing, before sunscreen"
         ELSE IF timing = "Evening" THEN "after cleansing, before moisturizer"
         ELSE "as needed in your skincare routine",
         LAMBDA routine_position :
    Bind(IF contains(usage_text, <<"2", "-", "3", " ", "d", "r", "o", "p", "s">>) THEN "2-3 drops"
         ELSE IF contains(usage_text, <<"d", "r", "o", "p">>) THEN "Few drops"
         ELSE IF contains(usage_text, <<"p", "e", "a", "-", "s", "i", "z", "e", "d">>) THEN "Pea-sized amount"
         ELSE "As directed",
         LAMBDA application_amount :
    [title |-> "How to Use",
     frequency |-> _determine_frequency(usage_text),
     timing |-> timing,
     routine_position |-> routine_position,
     application_amount |-> application_amount,
     steps |-> _generate_application_steps(product, application_amount, timing),
     tips |-> _generate_usage_tips(product),
     instructions |-> product.usage]))))

(***************************************************************************)
(* src/logic_blocks/safety_block.py  (texts abbreviated)                   *)
(***************************************************************************)
_identify_side_effects(side_effects_text) ==
    Bind((IF contains(side_effects_text, <<"t", "i", "n", "g", "l", "i", "n", "g">>) THEN <<"Tingling sensation">> ELSE <<>>)
         \o (IF contains(side_effects_text, <<"r", "e", "d", "n", "e", "s", "s">>) THEN <<"Mild redness">> ELSE <<>>)
         \o (IF contains(side_effects_text, <<"d", "r", "y", "n", "e", "s", "s">>) THEN <<"Temporary dryness">> ELSE <<>>)
         \o (IF contains(side_effects_text, <<"i", "r", "r", "i", "t", "a", "t", "i", "o", "n">>) THEN <<"Skin irritation">> ELSE <<>>),
         LAMBDA effects :
    IF effects = <<>> THEN <<"No known severe side effects">> ELSE effects)

_generate_precautions(product, side_effects_text) ==
    <<"Always patch test", "Avoid contact with eyes">>
    \o (IF contains(side_effects_text, <<"s", "e", "n", "s", "i", "t", "i", "v", "e">>)
        THEN <<"Start with 2-3 times per week if you have sensitive skin">> ELSE <<>>)
    \o (IF \E i \in 1..Len(product.ingredients) :
               Bind(lower(product.ingredients[i]), LAMBDA ing : contains(ing, <<"v", "i", "t", "a", "m", "i", "n", " ", "c">>))
        THEN <<"Do not mix with vitamin B3 or niacinamide">> ELSE <<>>)
    \o (IF \E i \in 1..Len(product.ingredients) :
               Bind(lower(product.ingredients[i]), LAMBDA ing : contains(ing, <<"a", "c", "i", "d">>))
        THEN <<"Avoid using with other exfoliating acids">> ELSE <<>>)
    \o <<"Keep away from heat sources", "Consult a dermatologist">>

_generate_action_steps(severity, effects) ==
    <<"Stop using the product immediately", "Rinse face thoroughly with cool water">>
    \o (IF severity \in {"Moderate", "Requires Caution"}
        THEN <<"Apply a gentle, fragrance-free moisturizer",
               "Do not use other active ingredients until irritation clears">>
        ELSE <<"Apply a calming moisturizer to soothe skin">>)
    \o <<"Consider reintroducing at lower frequency">>

_determine_suitable_for(product) ==
    [i \in 1..Len(product.skin_types) |-> <<product.skin_types[i], " skin">>]
    \o << <<"Adults 18+ years">> >>
    \o (IF Bind(lower(product.side_effects), LAMBDA text : contains(text, <<"m", "i", "l", "d">>))
        THEN << <<"Sensitive skin types (with patch test)">> >> ELSE <<>>)

_determine_not_suitable_for(product, side_effects_text) ==
    <<"Pregnant or nursing women", "Children under 18 years">>
    \o (IF contains(side_effects_text, <<"s", "e", "n", "s", "i", "t", "i", "v", "e">>)
        THEN <<"Those with severe skin sensitivity without prior testing">> ELSE <<>>)
    \o <<"Those allergic to any ingredient", "Active skin infections or severe acne">>

generate_safety_block(product) ==
    Bind(lower(product.side_effects), LAMBDA side_effects_text :
    Bind(IF contains(side_effects_text, <<"m", "i", "l", "d">>) THEN "Mild"
         ELSE IF contains(side_effects_text, <<"m", "o", "d", "e", "r", "a", "t", "e">>) THEN "Moderate"
         ELSE IF contains(side_effects_text, <<"s", "e", "v", "e", "r", "e">>) THEN "Requires Caution"
         ELSE "Minimal",
         LAMBDA severity :
    Bind(_identify_side_effects(side_effects_text), LAMBDA known_effects :
    [title |-> "Safety & Side Effects",
     severity |-> severity,
     side_effects |-> known_effects,
     precautions |-> _generate_precautions(product, side_effects_text),
     if_side_effects_occur |-> _generate_action_steps(severity, known_effects),
     suitable_for |-> _determine_suitable_for(product),
     not_suitable_for |-> _determine_not_suitable_for(product, side_effects_text)])))

(***************************************************************************)
(* src/logic_blocks/price_block.py                                         *)
(*                                                                         *)
(* ml_per_use = 2.5 * 0.05 = 1/8 ml, so total_uses = 8 * bottle_size_ml    *)
(* and cost_per_use = price / (8 * bottle_size_ml).                        *)
(***************************************************************************)
BOTTLE_SIZE_ML == 30

\* An empty list of premium ingredients.
NO_PREMIUM_INGREDIENTS == {}

PREMIUM_INGREDIENTS ==
    {<<"V", "i", "t", "a", "m", "i", "n", " ", "C">>, <<"H", "y", "a", "l", "u", "r", "o", "n", "i", "c", " ", "A", "c", "i", "d">>, <<"R", "e", "t", "i", "n", "o", "l">>, <<"N", "i", "a", "c", "i", "n", "a", "m", "i", "d", "e">>}

\* cost_per_use is price / uses and days_supply a whole number of days here
_generate_value_highlights(product, price, uses, days_supply) ==
    (IF price < 5 * uses * Subunits
     THEN << <<"Less than Rs", py_int(price, uses * Subunits) + 1, " per application">> >>
     ELSE << <<"Approximately Rs", round_half_even(price, uses * Subunits), " per use">> >>)
    \o (IF days_supply >= 60
        THEN << <<"Over ", days_supply \div 30, " months supply with daily use">> >>
        ELSE << <<"Approximately ", days_supply, " days of use">> >>)
    \o (IF product.concentration # <<>>
        THEN << <<"Effective ", product.concentration, " formulation">> >> ELSE <<>>)
    \o (IF \E i \in 1..Len(product.ingredients) : product.ingredients[i] \in PREMIUM_INGREDIENTS
        THEN << <<"Contains premium, research-backed ingredients">> >> ELSE <<>>)
    \o (IF Len(product.benefits) >= 2
        THEN << <<"Delivers ", Len(product.benefits), " benefits in one product">> >>
        ELSE <<>>)

_generate_investment_statement(product, price, days_supply) ==
    Bind(round_half_even(price, days_supply * Subunits), LAMBDA daily :
    IF price < 15 * days_supply * Subunits
    THEN <<"An investment of just Rs", daily, " per day">>
    ELSE IF price < 30 * days_supply * Subunits
    THEN <<"Premium skincare at Rs", daily, " daily">>
    ELSE <<"A professional-grade treatment for Rs", daily, " per day">>)

generate_price_block(product) ==
    Bind(product.price, LAMBDA price :
    Bind(BOTTLE_SIZE_ML, LAMBDA bottle_size_ml :
    Bind(lower(product.usage), LAMBDA usage_lower :
    Bind(IF contains(usage_lower, <<"t", "w", "i", "c", "e">>) \/ contains(usage_lower, <<"m", "o", "r", "n", "i", "n", "g", " ", "a", "n", "d", " ", "e", "v", "e", "n", "i", "n", "g">>)
         THEN 2 ELSE 1,
         LAMBDA uses_per_day :
    Bind(8 * bottle_size_ml, LAMBDA total_uses :
    Bind(total_uses \div uses_per_day, LAMBDA days_supply :
    Bind(IF price < 500 * Subunits THEN "Budget-Friendly"
         ELSE IF price < 1000 * Subunits THEN "Mid-Range"
         ELSE IF price < 2000 * Subunits THEN "Premium"
         ELSE "Luxury",
         LAMBDA positioning :
    [title |-> "Pricing & Value",
     price_numeric |-> price,
     bottle_size_ml |-> bottle_size_ml,
     positioning |-> positioning,
     \* "{:.2f}": hundredths of a rupee
     cost_per_ml |-> round_half_even(100 * price, bottle_size_ml * Subunits),
     cost_per_use |-> round_half_even(100 * price, total_uses * Subunits),
     estimated_days_supply |-> days_supply,
     value_highlights |-> _generate_value_highlights(product, price, total_uses, days_supply),
     investment_statement |-> _generate_investment_statement(product, price, days_supply)])))))))

(***************************************************************************)
(* src/models/pages.py                                                     *)
(***************************************************************************)
\* ProductPageModel(...): every section must be a dict.  Only the benefit
\* block can hand over something else (None); generated_at is left out.
ProductPageModel(product_name, hero, benefits, usage, ingredients, safety, price) ==
    IF benefits.none THEN Err("ValidationError")
    ELSE Ok([page_type |-> "product",
             product_name |-> product_name,
             hero_section |-> hero,
             benefits_section |-> benefits.val,
             usage_section |-> usage,
             ingredients_section |-> ingredients,
             safety_section |-> safety,
             price_section |-> price])

\* min_length of ComparisonPageModel.recommendation
RECOMMENDATION_MIN_LENGTH == 50

(***************************************************************************)
(* src/agents/product_page_generator.py                                    *)
(***************************************************************************)
\* get_llm is called before the try.  Whatever goes wrong inside the try,
\* and a reply without a JSON span, ends at the fallback after the try.
_generate_hero_section(product, key, reply) ==
    IF ~get_llm(key).ok THEN TryErr("ValueError", <<>>)
    ELSE IF reply.kind = "text" /\ has_json_span(reply.content) /\ json_loads(reply).ok
    THEN RetVal(json_loads(reply).val, <<Call("hero", reply)>>)
    ELSE RetVal([headline |-> <<"Premium ", product.name>>,
                 tagline |-> <<"Professional skincare solution for ", product.skin_types,
                               " skin. Formulated with ", product.concentration>>,
                 cta_text |-> "Shop Now"],
                <<Call("hero", reply)>>)

\* The try block of product_page_generator_agent.
product_page_generator_try(st, hp, key, r_hero, r_benefit, r_ingredient) ==
    IF ~Has(st, "product")
    THEN Bind(add_error(st, hp, <<"Product not found in state">>), LAMBDA a :
         TryOk(a.state, a.heap, <<>>))
    ELSE
    Bind(st.product, LAMBDA product :
    Bind(_generate_hero_section(product, key, r_hero), LAMBDA hero :
    IF ~hero.ok THEN TryErr(hero.exc, hero.calls) ELSE
    Bind(generate_benefit_block(product, TRUE, key, r_benefit), LAMBDA benefits :
    IF ~benefits.ok THEN TryErr(benefits.exc, hero.calls \o benefits.calls) ELSE
    Bind(generate_ingredient_block(product, TRUE, key, r_ingredient), LAMBDA ingredients :
    Bind(hero.calls \o benefits.calls \o ingredients.calls, LAMBDA calls :
    IF ~ingredients.ok THEN TryErr(ingredients.exc, calls) ELSE
    Bind(generate_usage_block(product), LAMBDA usage :
    Bind(generate_safety_block(product), LAMBDA safety :
    Bind(generate_price_block(product), LAMBDA price :
    Bind(ProductPageModel(product.name, hero.val, benefits, usage, ingredients.val,
                          safety, price),
         LAMBDA page :
    IF ~page.ok THEN TryErr(page.exc, calls) ELSE
    Bind(Put(st, "product_page", page.val), LAMBDA st1 :
    Bind(list_append(st1, hp, "execution_log",
             <<"Agent 5 (Product Page Generator): Generated complete product page">>),
         LAMBDA a :
    TryOk(a.state, a.heap, calls))))))))))))

product_page_generator_agent(st, hp, key, r_hero, r_benefit, r_ingredient) ==
    Bind(product_page_generator_try(st, hp, key, r_hero, r_benefit, r_ingredient), LAMBDA r :
    IF r.ok THEN Returned(r.state, r.heap, r.calls)
    ELSE caught(st, hp, r.calls, "Product page generation failed: ", r.exc))

(***************************************************************************)
(* src/logic_blocks/comparison_block.py                                    *)
(***************************************************************************)
\* abs(price_diff) < 100: the tie threshold, in rupees
PRICE_TIE_THRESHOLD == 100

\* A list kept as it is, duplicates included, instead of set(list).
RangeWithDuplicates(s) == {<<i, s[i]>> : i \in 1..Len(s)}

Range(s) == {s[i] : i \in 1..Len(s)}

_compare_price(a, b) ==
    Bind(a.price - b.price, LAMBDA price_diff :
    \* (price_diff / product_b.price) * 100, printed as "{:+.0f}"
    Bind(IF b.price > 0 THEN round_half_even(100 * price_diff, b.price) ELSE 0,
         LAMBDA price_diff_percent :
    Bind(py_int(price_diff, Subunits), LAMBDA rupees :        \* int(price_diff)
    Bind(IF abs(price_diff) < PRICE_TIE_THRESHOLD * Subunits THEN "tie"
         ELSE IF price_diff < 0 THEN "product_b"
         ELSE "product_a",
         LAMBDA winner :
    Bind(IF abs(price_diff) < PRICE_TIE_THRESHOLD * Subunits
         THEN <<"Similarly priced">>
         ELSE IF price_diff < 0 THEN <<"Rs", abs(rupees), " cheaper">>
         ELSE <<"Rs", rupees, " more affordable">>,
         LAMBDA verdict :
    [dimension |-> "Price",
     product_a |-> <<"Rs", a.price>>,
     product_b |-> <<"Rs", b.price>>,
     difference |-> [rupees |-> abs(rupees), percent |-> price_diff_percent],
     winner |-> winner,
     verdict |-> verdict])))))

_compare_concentration(a, b) ==
    [dimension |-> "Concentration",
     product_a |-> a.concentration,
     product_b |-> b.concentration,
     winner |-> "contextual",
     verdict |-> <<"Compare based on your skin's needs">>]

\* ", ".join over a set has no defined order: the rendered value is the set
_compare_skin_types(a, b) ==
    Bind(Range(a.skin_types), LAMBDA a_types :
    Bind(Range(b.skin_types), LAMBDA b_types :
    Bind(Cardinality(a_types), LAMBDA a_count :
    Bind(Cardinality(b_types), LAMBDA b_count :
    [dimension |-> "Skin Type Coverage",
     product_a |-> a_types,
     product_b |-> b_types,
     winner |-> IF a_count > b_count THEN "product_a"
                ELSE IF b_count > a_count THEN "product_b"
                ELSE "tie",
     verdict |-> IF a_count > b_count THEN <<"Suitable for ", a_count, " skin types">>
                 ELSE IF b_count > a_count THEN <<"Suitable for ", b_count, " skin types">>
                 ELSE <<"Both suitable for ", a_count, " skin types">>]))))

\* An ingredient comparison reporting every ingredient of either product.
_compare_ingredients_counting_union(a, b) ==
    Bind({lower(a.ingredients[i]) : i \in 1..Len(a.ingredients)}, LAMBDA a_ings :
    Bind({lower(b.ingredients[i]) : i \in 1..Len(b.ingredients)}, LAMBDA b_ings :
    Bind(a_ings \cup b_ings, LAMBDA common :
    [dimension |-> "Ingredients",
     product_a |-> <<Len(a.ingredients), " ingredients">>,
     product_b |-> <<Len(b.ingredients), " ingredients">>,
     common_ingredients |-> Cardinality(common),
     winner |-> "contextual",
     verdict |-> <<Cardinality(common), " shared ingredients">>])))

_compare_ingredients(a, b) ==
    Bind({lower(a.ingredients[i]) : i \in 1..Len(a.ingredients)}, LAMBDA a_ings :
    Bind({lower(b.ingredients[i]) : i \in 1..Len(b.ingredients)}, LAMBDA b_ings :
    Bind(a_ings \cap b_ings, LAMBDA common :
    [dimension |-> "Ingredients",
     product_a |-> <<Len(a.ingredients), " ingredients">>,
     product_b |-> <<Len(b.ingredients), " ingredients">>,
     common_ingredients |-> Cardinality(common),
     winner |-> "contextual",
     verdict |-> <<Cardinality(common), " shared ingredients">>])))

_compare_benefits(a, b) ==
    Bind(Len(a.benefits), LAMBDA a_count :
    Bind(Len(b.benefits), LAMBDA b_count :
    [dimension |-> "Benefits",
     product_a |-> <<a_count, " benefits">>,
     product_b |-> <<b_count, " benefits">>,
     winner |-> IF a_count > b_count THEN "product_a"
                ELSE IF b_count > a_count THEN "product_b"
                ELSE "tie",
     verdict |-> IF a_count > b_count THEN <<a_count, " claimed benefits">>
                 ELSE IF b_count > a_count THEN <<b_count, " claimed benefits">>
                 ELSE <<"Both offer ", a_count, " benefits">>]))

_compare_safety(a, b) ==
    Bind(lower(a.side_effects), LAMBDA a_text :
    Bind(lower(b.side_effects), LAMBDA b_text :
    Bind(contains(a_text, <<"m", "i", "l", "d">>), LAMBDA a_safe :
    Bind(contains(b_text, <<"m", "i", "l", "d">>), LAMBDA b_safe :
    [dimension |-> "Safety",
     product_a |-> a.side_effects,
     product_b |-> b.side_effects,
     winner |-> IF a_safe /\ ~b_safe THEN "product_a"
                ELSE IF b_safe /\ ~a_safe THEN "product_b"
                ELSE "tie",
     verdict |-> IF (a_safe /\ ~b_safe) \/ (b_safe /\ ~a_safe)
                 THEN <<"Milder side effect profile">>
                 ELSE <<"Similar safety profiles">>]))))

\* sum(1 for item in comparison_matrix if item["winner"] ...)
count_winner(matrix, tags) ==
    Cardinality({i \in 1..Len(matrix) : matrix[i].winner \in tags})

\* A tally that leaves "contextual" dimensions out.
_calculate_scores_without_contextual(comparison_matrix) ==
    [product_a_wins |-> count_winner(comparison_matrix, {"product_a"}),
     product_b_wins |-> count_winner(comparison_matrix, {"product_b"}),
     ties |-> count_winner(comparison_matrix, {"tie"}),
     total_dimensions |-> Len(comparison_matrix)]

_calculate_scores(comparison_matrix) ==
    [product_a_wins |-> count_winner(comparison_matrix, {"product_a"}),
     product_b_wins |-> count_winner(comparison_matrix, {"product_b"}),
     ties |-> count_winner(comparison_matrix, {"tie", "contextual"}),
     total_dimensions |-> Len(comparison_matrix)]

_generate_comparison_summary(a, b, scores) ==
    IF scores.product_a_wins > scores.product_b_wins
    THEN <<a.name, " leads in ", scores.product_a_wins, scores.total_dimensions>>
    ELSE IF scores.product_b_wins > scores.product_a_wins
    THEN <<b.name, " leads in ", scores.product_b_wins, scores.total_dimensions>>
    ELSE <<"Both products are competitive across ", scores.total_dimensions>>

generate_comparison_block(a, b) ==
    Bind(<<_compare_price(a, b),
           _compare_concentration(a, b),
           _compare_skin_types(a, b),
           _compare_ingredients(a, b),
           _compare_benefits(a, b),
           _compare_safety(a, b)>>,
         LAMBDA comparison_matrix :
    Bind(_calculate_scores(comparison_matrix), LAMBDA scores :
    [matrix |-> comparison_matrix,
     scores |-> scores,
     summary |-> _generate_comparison_summary(a, b, scores)]))

(***************************************************************************)
(* src/agents/comparison_generator.py                                      *)
(***************************************************************************)
\* str(n) for n >= 0
RECURSIVE digits_of(_)
digits_of(n) ==
    IF n < 10 THEN <<ToString(n)>>
    ELSE digits_of(n \div 10) \o <<ToString(n % 10)>>

\* Ok(product) or the exception raised: float() of the text before '%' raises
\* ValueError when that text is not a number.
_generate_fallback_product_b(a) ==
    Bind(split_first(a.concentration, "%"), LAMBDA text :
    Bind(float_of(text), LAMBDA number :
    IF ~number.ok THEN Err(number.exc)
    ELSE
    Bind(
           [name |-> <<"P", "r", "e", "m", "i", "u", "m", " ">> \o first_word(a.name) \o <<" ", "C", "o", "m", "p", "e", "t", "i", "t", "o", "r">>,
            \* int(x * 0.95)
            concentration |-> digits_of((95 * number.val) \div 100) \o <<"%", " ", "A", "c", "t", "i", "v", "e">>,
            skin_types |-> a.skin_types,
            ingredients |-> <<Head(a.ingredients) \o <<" ", "(", "E", "n", "h", "a", "n", "c", "e", "d", ")">>>> \o Tail(a.ingredients),
            benefits |-> a.benefits,
            usage |-> a.usage,
            side_effects |-> a.side_effects,
            \* product_a.price * 1.15, kept on the price grid
            price |-> (115 * a.price) \div 100],
         LAMBDA data :
    ProductModel(data))))

\* A JSON number or string under "price": [type |-> "number", v |-> a price]
\* or [type |-> "string", v |-> characters]; float() of it.
json_price(product_data, a) ==
    IF ~Has(product_data, "price") THEN Ok(a.price)
    ELSE IF product_data.price.type = "number" THEN Ok(product_data.price.v)
    ELSE Bind(float_of(product_data.price.v), LAMBDA f :
         IF f.ok THEN Ok(f.val * Subunits) ELSE f)

\* The body of the try of _generate_fictional_product once json.loads has
\* given product_data: Ok(product) or the exception raised.
product_from_json(product_data, a) ==
    Bind(json_price(product_data, a), LAMBDA price :
    IF ~price.ok THEN Err(price.exc)
    ELSE
    Bind(
           [name |-> Get(product_data, "name", <<"C", "o", "m", "p", "e", "t", "i", "t", "o", "r", " ", "S", "e", "r", "u", "m">>),
            concentration |-> Get(product_data, "concentration", a.concentration),
            skin_types |-> Get(product_data, "skin_types", a.skin_types),
            ingredients |-> Get(product_data, "ingredients", a.ingredients),
            benefits |-> Get(product_data, "benefits", a.benefits),
            usage |-> Get(product_data, "usage", a.usage),
            side_effects |-> Get(product_data, "side_effects", a.side_effects),
            price |-> price.val],
         LAMBDA data :
    ProductModel(data)))

\* get_llm is called before the try.  The except handler returns the fallback
\* product (or raises what building it raises); a reply without a JSON span
\* raises nothing, so the function runs off its end and returns None.
_generate_fictional_product(a, key, reply) ==
    IF ~get_llm(key).ok THEN TryErr("ValueError", <<>>)
    ELSE
    Bind(<<Call("competitor", reply)>>, LAMBDA calls :
    LET handler == Bind(_generate_fallback_product_b(a), LAMBDA fallback :
                   IF fallback.ok THEN RetVal(fallback.val, calls)
                   ELSE TryErr(fallback.exc, calls))
    IN IF reply.kind = "throw" THEN handler
       ELSE IF has_json_span(reply.content)
       THEN IF json_loads(reply).ok
            THEN Bind(json_loads(reply).val, LAMBDA product_data :
                 Bind(product_from_json(product_data, a), LAMBDA b :
                 IF b.ok THEN RetVal(b.val, calls) ELSE handler))
            ELSE handler
       ELSE RetNone(calls))

\* get_llm is called before the try.  The recommendation is the reply's
\* content, or the fixed fallback text around the two names.
_generate_recommendation(a, b, comparison_data, key, reply) ==
    IF ~get_llm(key).ok THEN TryErr("ValueError", <<>>)
    ELSE IF reply.kind = "throw"
    THEN RetVal([source |-> "fallback", product_a |-> a.name, product_b |-> b.name],
                <<Call("recommendation", reply)>>)
    ELSE RetVal([source |-> "llm", text |-> reply.content],
                <<Call("recommendation", reply)>>)

\* len(recommendation): the fallback's fixed text has 204 characters
recommendation_length(rec) ==
    IF rec.source = "llm" THEN Len(rec.text)
    ELSE 204 + 2 * Len(rec.product_a) + 2 * Len(rec.product_b)

\* ComparisonPageModel(...): recommendation has min_length 50; generated_at
\* is left out.
ComparisonPageModel(a, b, comparison_matrix, recommendation) ==
    IF recommendation_length(recommendation) < RECOMMENDATION_MIN_LENGTH
    THEN Err("ValidationError")
    ELSE Ok([page_type |-> "comparison",
             product_a |-> a,
             product_b |-> b,
             comparison_matrix |-> comparison_matrix,
             recommendation |-> recommendation])

\* The try block of comparison_generator_agent.  With product_b None,
\* generate_comparison_block raises AttributeError at product_b.price.
comparison_generator_try(st, hp, key, r_competitor, r_recommendation) ==
    IF ~Has(st, "product")
    THEN Bind(add_error(st, hp, <<"Product not found in state">>), LAMBDA e :
         TryOk(e.state, e.heap, <<>>))
    ELSE
    Bind(st.product, LAMBDA a :
    Bind(_generate_fictional_product(a, key, r_competitor), LAMBDA b :
    IF ~b.ok THEN TryErr(b.exc, b.calls)
    ELSE IF b.none THEN TryErr("AttributeError", b.calls) ELSE
    Bind(generate_comparison_block(a, b.val), LAMBDA comparison_data :
    Bind(_generate_recommendation(a, b.val, comparison_data, key, r_recommendation),
         LAMBDA rec :
    IF ~rec.ok THEN TryErr(rec.exc, b.calls \o rec.calls) ELSE
    Bind(ComparisonPageModel(a, b.val, comparison_data.matrix, rec.val), LAMBDA page :
    IF ~page.ok THEN TryErr(page.exc, b.calls \o rec.calls) ELSE
    Bind(Put(st, "comparison_page", page.val), LAMBDA st1 :
    Bind(list_append(st1, hp, "execution_log",
             <<"Agent 6 (Comparison Generator): Generated comparison with ", b.val.name>>),
         LAMBDA s :
    TryOk(s.state, s.heap, b.calls \o rec.calls))))))))

comparison_generator_agent(st, hp, key, r_competitor, r_recommendation) ==
    Bind(comparison_generator_try(st, hp, key, r_competitor, r_recommendation), LAMBDA r :
    IF r.ok THEN Returned(r.state, r.heap, r.calls)
    ELSE caught(st, hp, r.calls, "Comparison generation failed: ", r.exc))

(***************************************************************************)
(* src/orchestration/graph.py                                              *)
(***************************************************************************)
\* The conditional edge after generate_questions.  errors + [error_msg] is a
\* new list object.
\* A gate that lets every run through.
should_always_continue(st, hp) == [route |-> "continue", state |-> st, heap |-> hp]

should_continue_after_questions(st, hp) ==
    Bind(errors_of(st, hp), LAMBDA errs :
    IF Len(errs) > 0 THEN [route |-> "error", state |-> st, heap |-> hp]
    ELSE IF ~Has(st, "questions")
    THEN [route |-> "error",
          state |-> Put(st, "errors", Len(hp) + 1),
          heap |-> Append(hp, errs \o << <<"No questions were generated">> >>)]
    ELSE [route |-> "continue", state |-> st, heap |-> hp])

\* create_workflow_graph: add_edge, the mapping of add_conditional_edges
\* ("route" stands for the conditional edge out of generate_questions) and
\* set_entry_point.
ENTRY_POINT == "parse_data"

\* A graph whose conditional edge leaves parse_data instead.
graph_edge_gate_after_parse(node) ==
    CASE node = "parse_data" -> "route"
      [] node = "generate_questions" -> "generate_faq"
      [] node = "generate_faq" -> "generate_product_page"
      [] node = "generate_product_page" -> "generate_comparison"
      [] node = "generate_comparison" -> "END"

\* A graph with an exit after generate_faq.
graph_edge_exit_after_faq(node) ==
    CASE node = "parse_data" -> "generate_questions"
      [] node = "generate_questions" -> "route"
      [] node = "generate_faq" -> "END"
      [] node = "generate_product_page" -> "generate_comparison"
      [] node = "generate_comparison" -> "END"

graph_edge(node) ==
    CASE node = "parse_data" -> "generate_questions"
      [] node = "generate_questions" -> "route"
      [] node = "generate_faq" -> "generate_product_page"
      [] node = "generate_product_page" -> "generate_comparison"
      [] node = "generate_comparison" -> "END"

\* A mapping whose "continue" skips generate_faq.
conditional_edge_skipping_faq(route) ==
    CASE route = "continue" -> "generate_product_page"
      [] route = "error" -> "END"

conditional_edge(route) ==
    CASE route = "continue" -> "generate_faq"
      [] route = "error" -> "END"

(***************************************************************************)
(* src/orchestration/execution.py                                          *)
(***************************************************************************)
\* execute_workflow_step_by_step: the statement after each agent call, and
\* the key under which state.copy() is stored.  dict.copy() is shallow: the
\* copy holds the same list objects.
step_by_step_next(node) ==
    CASE node = "parse_data" -> "generate_questions"
      [] node = "generate_questions" -> "generate_faq"
      [] node = "generate_faq" -> "generate_product_page"
      [] node = "generate_product_page" -> "generate_comparison"
      [] node = "generate_comparison" -> "END"
snapshot_key(node) ==
    CASE node = "parse_data" -> "after_parser"
      [] node = "generate_questions" -> "after_questions"
      [] node = "generate_faq" -> "after_faq"
      [] node = "generate_product_page" -> "after_product"
      [] node = "generate_comparison" -> "after_comparison"

(***************************************************************************)
(* Inputs: raw product data and LLM replies.                               *)
(***************************************************************************)
SeqsUpTo(S, n) == UNION {[1..k -> S] : k \in 0..n}

\* The example record of ProductModel's schema, with shorter texts.
RawGlow ==
    [name |-> <<" ", "G", "l", "o", "w", " ", "S", "e", "r", "u", "m">>,
     concentration |-> <<"1", "0", "%", " ", "C">>,
     skin_types |-> <<"Oily", "Combination">>,
     ingredients |-> <<<<"V", "i", "t", "a", "m", "i", "n", " ", "C">>, <<"H", "y", "a", "l", "u", "r", "o", "n", "i", "c", " ", "A", "c", "i", "d">>>>,
     benefits |-> <<<<"G", "l", "o", "w">>, <<"F", "i", "r", "m">>>>,
     usage |-> <<"2", "-", "3", " ", "d", "r", "o", "p", "s", ",", " ", "m", "o", "r", "n", "i", "n", "g">>,
     side_effects |-> <<"M", "i", "l", "d", " ", "t", "i", "n", "g", "l", "i", "n", "g">>,
     price |-> 699 * Subunits]

\* A valid record with an ingredient outside the knowledge base and a
\* concentration label that does not start with a number.
RawZinc ==
    [name |-> <<"Z", "i", "n", "c", " ", "G", "e", "l">>,
     concentration |-> <<"S", "t", "r", "o", "n", "g">>,
     skin_types |-> <<"Dry">>,
     ingredients |-> <<<<"Z", "i", "n", "c">>, <<"R", "e", "t", "i", "n", "o", "l">>>>,
     benefits |-> <<<<"C", "a", "l", "m">>>>,
     usage |-> <<"t", "w", "i", "c", "e", ",", " ", "a", "t", " ", "n", "i", "g", "h", "t">>,
     side_effects |-> <<"R", "e", "d", "n", "e", "s", "s">>,
     price |-> 1500 * Subunits]

Without(d, k) == [x \in (DOMAIN d) \ {k} |-> d[x]]

RawInputs ==
    {RawGlow, RawZinc,
     [RawGlow EXCEPT !.skin_types = <<>>],
     [RawGlow EXCEPT !.ingredients = <<>>],
     [RawGlow EXCEPT !.benefits = <<>>],
     [RawZinc EXCEPT !.ingredients = <<>>, !.price = 0],
     [RawGlow EXCEPT !.name = <<" ", " ">>],
     [RawGlow EXCEPT !.price = 0],
     Without(RawGlow, "price"),
     EmptyDict,
     None}

QuestionPool ==
    {[category |-> <<"u", "s", "a", "g", "e">>, question |-> "How do I apply it?"],
     [category |-> <<"s", "a", "f", "e", "t", "y">>, question |-> "Is it safe for me?"]}

Throw == [kind |-> "throw"]
Text(content, json) == [kind |-> "text", content |-> content, json |-> json]

QuestionReplies ==
    {Throw, [kind |-> "object", val |-> None]}
    \cup {[kind |-> "object", val |-> [questions |-> qs]] :
             qs \in SeqsUpTo(QuestionPool, MaxQuestions)}

\* A reply whose content is read and dropped.
AnswerReplies == {Throw, Text(<<"o", "k">>, Err("JSONDecodeError"))}

\* Replies to a caller that expects JSON: no brace at all, a span that does
\* not parse, and a span that parses to each of values; and a reply whose
\* last closing brace comes before its first opening one.
JsonReplies(values) ==
    {Throw,
     Text(<<"S", "o", "r", "r", "y">>, Err("JSONDecodeError")),
     Text(<<"{", "x", "}">>, Err("JSONDecodeError"))}
    \cup {Text(<<"{", "}">>, Ok(v)) : v \in values}
WrongOrder == Text(<<"}", "{">>, Err("JSONDecodeError"))

HeroReplies == JsonReplies({[headline |-> "H", tagline |-> "T", cta_text |-> "Buy"]})

BenefitReplies ==
    JsonReplies({<<[key |-> <<"G", "l", "o", "w">>, value |-> "It glows."]>>}) \cup {WrongOrder}

IngredientReplies ==
    JsonReplies({
        <<[key |-> <<"Z", "i", "n", "c">>,
           value |-> [is_object |-> TRUE,
                      fields |-> [function |-> "Soothes", benefits |-> <<"Calm">>]]]>>,
        <<[key |-> <<"Z", "i", "n", "c">>, value |-> [is_object |-> FALSE]]>>})

CompetitorReplies ==
    {WrongOrder} \cup JsonReplies({
        [name |-> <<"R", "i", "v", "a", "l">>,
         concentration |-> <<"8", "%", " ", "C">>,
         skin_types |-> <<"Dry", "Oily", "Normal">>,
         ingredients |-> <<<<"v", "i", "t", "a", "m", "i", "n", " ", "c">>>>,
         benefits |-> <<<<"G", "l", "o", "w">>>>,
         usage |-> <<"o", "n", "c", "e">>,
         side_effects |-> <<"M", "o", "d", "e", "r", "a", "t", "e", " ", "r", "e", "d", "n", "e", "s", "s">>,
         price |-> [type |-> "number", v |-> 900 * Subunits]],
        [name |-> <<"R", "i", "v", "a", "l">>],
        [name |-> <<"R", "i", "v", "a", "l">>, skin_types |-> <<>>],
        [name |-> <<"R", "i", "v", "a", "l">>, price |-> [type |-> "string", v |-> <<"c", "h", "e", "a", "p">>]]})

RecommendationReplies ==
    {Throw,
     Text([i \in 1..RECOMMENDATION_MIN_LENGTH |-> "x"], Err("JSONDecodeError")),
     Text([i \in 1..(RECOMMENDATION_MIN_LENGTH - 1) |-> "x"], Err("JSONDecodeError"))}

(***************************************************************************)
(* The two executors.  Init is the state after create_initial_state.       *)
(***************************************************************************)
ScorerIdle == product_a = None /\ product_b = None /\ comparison = None /\ swapped = None
EngineIdle == engine = None /\ render_call = None /\ render_result = None
BlocksIdle == block_call = None /\ block_result = None
Idle == ScorerIdle /\ EngineIdle /\ BlocksIdle

Init ==
    /\ mode \in {"graph", "step_by_step"}
    /\ api_key \in BOOLEAN
    /\ \E raw_data \in RawInputs :
       \E initial \in {create_initial_state(raw_data)} :
          /\ state = initial.state
          /\ heap = initial.heap
    /\ pc = ENTRY_POINT
    /\ states = EmptyDict
    /\ trace = <<>>
    /\ llm_calls = <<>>
    /\ raised = FALSE
    /\ gate = [taken |-> FALSE]
    /\ validation = None
    /\ files = None
    /\ Idle

\* The agent at node has run with result r: the executor stores what it
\* returned and moves on (an exception leaves the executor).
Ran(node, r) ==
    /\ state' = r.state
    /\ heap' = r.heap
    /\ llm_calls' = llm_calls \o r.calls
    /\ raised' = r.raised
    /\ trace' = Append(trace, node)
    /\ states' = IF mode = "step_by_step" /\ ~r.raised
                 THEN Put(states, snapshot_key(node), r.state)
                 ELSE states
    /\ pc' = IF r.raised THEN "END"
             ELSE IF mode = "graph" THEN graph_edge(node)
             ELSE step_by_step_next(node)
    /\ UNCHANGED <<mode, api_key, gate, validation, files>>
    /\ UNCHANGED <<sc_vars, en_vars, bl_vars>>

ParseData ==
    /\ pc = "parse_data"
    /\ \E r \in {data_parser_agent(state, heap)} : Ran("parse_data", r)

GenerateQuestions ==
    /\ pc = "generate_questions"
    /\ \E reply \in QuestionReplies :
       \E r \in {question_generator_agent(state, heap, api_key, reply)} :
          Ran("generate_questions", r)

\* The conditional edge, taken by the compiled graph only.
Route ==
    /\ pc = "route"
    /\ \E r \in {should_continue_after_questions(state, heap)} :
          /\ state' = r.state
          /\ heap' = r.heap
          /\ gate' = [taken |-> TRUE,
                      errors |-> Len(errors_of(state, heap)),
                      questions |-> Has(state, "questions"),
                      route |-> r.route]
          /\ pc' = conditional_edge(r.route)
    /\ UNCHANGED <<mode, api_key, states, trace, llm_calls, raised, validation, files>>
    /\ UNCHANGED <<sc_vars, en_vars, bl_vars>>

GenerateFaq ==
    /\ pc = "generate_faq"
    /\ \E reply \in AnswerReplies :
       \E r \in {faq_generator_agent(state, heap, api_key, reply)} :
          Ran("generate_faq", r)

GenerateProductPage ==
    /\ pc = "generate_product_page"
    /\ \E r_hero \in HeroReplies, r_benefit \in BenefitReplies,
          r_ingredient \in IngredientReplies :
       \E r \in {product_page_generator_agent(state, heap, api_key,
                                               r_hero, r_benefit, r_ingredient)} :
          Ran("generate_product_page", r)

GenerateComparison ==
    /\ pc = "generate_comparison"
    /\ \E r_competitor \in CompetitorReplies, r_recommendation \in RecommendationReplies :
       \E r \in {comparison_generator_agent(state, heap, api_key,
                                             r_competitor, r_recommendation)} :
          Ran("generate_comparison", r)

(***************************************************************************)
(* main.py after execute_workflow has returned: validate_workflow_output   *)
(* of src/orchestration/execution.py, then save_outputs.                   *)
(***************************************************************************)
get_state_summary(st, hp) ==
    [has_product |-> Has(st, "product"),
     has_questions |-> Has(st, "questions"),
     has_faq |-> Has(st, "faq_page"),
     has_product_page |-> Has(st, "product_page"),
     has_comparison |-> Has(st, "comparison_page"),
     error_count |-> Len(errors_of(st, hp)),
     log_entries |-> Len(log_of(st, hp))]

required_outputs ==
    <<"product", "questions", "faq_page", "product_page", "comparison_page">>

\* A validation that looks for the three page artifacts only.
validate_pages_only(st, hp) ==
    Bind(SelectSeq(SubSeq(required_outputs, 3, 5), LAMBDA output : ~Has(st, output)),
         LAMBDA missing_outputs :
    [all_required_outputs_present |-> missing_outputs = <<>>,
     missing_outputs |-> missing_outputs,
     errors |-> errors_of(st, hp),
     state_summary |-> get_state_summary(st, hp)])

\* The function reads the state and writes only its own report.
validate_workflow_output(st, hp) ==
    Bind(SelectSeq(required_outputs, LAMBDA output : ~Has(st, output)),
         LAMBDA missing_outputs :
    [all_required_outputs_present |-> missing_outputs = <<>>,
     missing_outputs |-> missing_outputs,
     errors |-> errors_of(st, hp),
     state_summary |-> get_state_summary(st, hp)])

outputs ==
    <<[filename |-> "faq.json", field |-> "faq_page"],
      [filename |-> "product_page.json", field |-> "product_page"],
      [filename |-> "comparison_page.json", field |-> "comparison_page"]>>

\* `if content`: None is false; a page model (a pydantic BaseModel, which
\* defines neither __bool__ nor __len__) is true.
truthy(content) == content # None

\* A save_outputs that writes a file for every entry of outputs.
save_outputs_unconditionally(st) ==
    {outputs[i].filename : i \in 1..Len(outputs)}

\* The names of the files write_json_output is called for.
save_outputs(st) ==
    {outputs[i].filename :
        i \in {k \in 1..Len(outputs) : truthy(Get(st, outputs[k].field, None))}}

\* validation = validate_workflow_output(state)
ValidateOutput ==
    /\ pc = "END"
    /\ mode = "graph"
    /\ validation = None
    /\ \E report \in {validate_workflow_output(state, heap)} : validation' = report
    /\ UNCHANGED <<mode, pc, state, heap, states, api_key, trace, llm_calls, raised, gate, files>>
    /\ UNCHANGED <<sc_vars, en_vars, bl_vars>>

\* save_outputs(state)
SaveOutputs ==
    /\ pc = "END"
    /\ mode = "graph"
    /\ validation # None
    /\ files = None
    /\ \E written \in {save_outputs(state)} : files' = [written |-> written]
    /\ UNCHANGED <<mode, pc, state, heap, states, api_key, trace, llm_calls, raised, gate,
                   validation>>
    /\ UNCHANGED <<sc_vars, en_vars, bl_vars>>

Next ==
    \/ ParseData
    \/ GenerateQuestions
    \/ Route
    \/ GenerateFaq
    \/ GenerateProductPage
    \/ GenerateComparison
    \/ ValidateOutput
    \/ SaveOutputs

Spec == Init /\ [][Next]_vars


(***************************************************************************)
(* The comparison scorer on its own: generate_comparison_block applied to  *)
(* a pair of validated products, in both argument orders.                  *)
(***************************************************************************)
\* Prices around the tie threshold: differences of 0, half a rupee less than
\* the threshold, the threshold, and more; whole and fractional.
ScorerPrices ==
    {600 * Subunits, 600 * Subunits + 1, 650 * Subunits,
     700 * Subunits - 1, 700 * Subunits, 900 * Subunits}

\* Profiles differing in skin types (with duplicates, equal counts of
\* different labels), ingredients (overlap up to letter case, disjoint) and
\* side-effect texts (with and without "mild", in either letter case).
ScorerProfiles ==
    {RawGlow,
     RawZinc,
     [RawGlow EXCEPT !.skin_types = <<"Dry", "Dry", "Oily">>,
                     !.ingredients = <<<<"v", "i", "t", "a", "m", "i", "n", " ", "c">>>>,
                     !.benefits = <<<<"G", "l", "o", "w">>, <<"F", "i", "r", "m">>, <<"C", "a", "l", "m">>>>,
                     !.side_effects = <<"N", "o", "n", "e", " ", "r", "e", "p", "o", "r", "t", "e", "d">>],
     [RawGlow EXCEPT !.skin_types = <<"Oily", "Combination", "Dry">>,
                     !.ingredients = <<<<"Z", "i", "n", "c">>, <<"A", "l", "o", "e">>>>,
                     !.side_effects = <<"M", "I", "L", "D", " ", "s", "t", "i", "n", "g">>],
     [RawZinc EXCEPT !.skin_types = <<"Normal", "Mature", "Normal", "Sensitive">>,
                     !.ingredients = <<<<"A", "L", "O", "E">>, <<"z", "i", "n", "c">>, <<"Z", "i", "n", "c">>>>,
                     !.side_effects = <<"M", "o", "d", "e", "r", "a", "t", "e", " ", "r", "e", "d", "n", "e", "s", "s">>]}

ScorerProducts ==
    {ProductModel([raw EXCEPT !.price = p]).val :
        raw \in ScorerProfiles, p \in ScorerPrices}

NotRunning ==
    /\ mode = "scorer"
    /\ pc = "END"
    /\ state = EmptyDict
    /\ heap = <<>>
    /\ states = EmptyDict
    /\ api_key = FALSE
    /\ trace = <<>>
    /\ llm_calls = <<>>
    /\ raised = FALSE
    /\ gate = [taken |-> FALSE]
    /\ validation = None
    /\ files = None

ScorerInit ==
    /\ product_a \in ScorerProducts
    /\ product_b \in ScorerProducts
    /\ comparison = None
    /\ swapped = None
    /\ NotRunning
    /\ EngineIdle
    /\ BlocksIdle

CompareAB ==
    /\ comparison = None
    /\ \E block \in {generate_comparison_block(product_a, product_b)} : comparison' = block
    /\ UNCHANGED <<product_a, product_b, swapped>>
    /\ UNCHANGED <<wf_vars, en_vars, bl_vars>>

CompareBA ==
    /\ swapped = None
    /\ \E block \in {generate_comparison_block(product_b, product_a)} : swapped' = block
    /\ UNCHANGED <<product_a, product_b, comparison>>
    /\ UNCHANGED <<wf_vars, en_vars, bl_vars>>

ScorerNext ==
    \/ CompareAB
    \/ CompareBA

ScorerSpec == ScorerInit /\ [][ScorerNext]_vars

(***************************************************************************)
(* Properties of the workflow engine.                                      *)
(***************************************************************************)
errors == errors_of(state, heap)
execution_log == log_of(state, heap)

StepOrder ==
    <<"parse_data", "generate_questions", "generate_faq",
      "generate_product_page", "generate_comparison">>
PageFields == {"faq_page", "product_page", "comparison_page"}
ContentFields == {"raw_data", "product", "questions"} \cup PageFields
IsPrefix(s, t) == Len(s) <= Len(t) /\ \A i \in 1..Len(s) : s[i] = t[i]

\* C1: in execute_workflow the gate is evaluated once generate_questions has
\* run; it routes to the exit exactly when the error list it sees is
\* non-empty or the questions field is absent; after that exit only the
\* first two steps have run, the run is over and none of faq_page,
\* product_page, comparison_page is in the state; otherwise the next step
\* is generate_faq.
C1_GateHalts ==
    (mode = "graph" /\ ~raised) =>
        /\ (Len(trace) >= 2 /\ pc # "route") => gate.taken
        /\ gate.taken =>
            /\ (gate.route = "error") <=> (gate.errors > 0 \/ ~gate.questions)
            /\ (gate.route = "error") =>
                  /\ pc = "END"
                  /\ trace = SubSeq(StepOrder, 1, 2)
                  /\ PageFields \cap DOMAIN state = {}
            /\ (gate.route # "error") =>
                  /\ gate.route = "continue"
                  /\ Len(trace) = 2 => pc = "generate_faq"
                  /\ Len(trace) > 2 => trace[3] = "generate_faq"

\* C1 witness: the gate saw a non-empty error list and the run is over.
C1_Witness ==
    /\ mode = "graph"
    /\ gate.taken
    /\ gate.route = "error"
    /\ gate.errors > 0
    /\ pc = "END"

\* What data_parser_agent leaves when parse-and-validate fails.
ParseFailed == Len(trace) >= 1 /\ ~Has(state, "product")

\* C2 as stated: when parse-and-validate fails in execute_workflow, no step
\* but parse_data ever runs and the error list holds only the validation
\* failure.
C2_Original ==
    (mode = "graph" /\ ParseFailed) =>
        /\ trace = <<"parse_data">>
        /\ Len(errors) = 1

\* C2 amended: when parse-and-validate fails in execute_workflow,
\* generate_questions still runs, once; it finds no product and appends
\* "Product not found in state" (and one log entry) after the validation
\* failure; the gate then ends the run: no later step runs and no product,
\* questions or page field is ever present.
C2_Amended ==
    (mode = "graph" /\ ParseFailed) =>
        /\ IsPrefix(trace, SubSeq(StepOrder, 1, 2))
        /\ DOMAIN state = {"raw_data", "errors", "execution_log"}
        /\ Len(trace) = 1 =>
              /\ pc = "generate_questions"
              /\ Len(errors) = 1
              /\ errors[1][1] \in {"Product validation failed: ",
                                   "Unexpected error in data parser: "}
              /\ Len(execution_log) = 2
        /\ Len(trace) = 2 =>
              /\ pc \in {"route", "END"}
              /\ Len(errors) = 2
              /\ errors[1][1] \in {"Product validation failed: ",
                                   "Unexpected error in data parser: "}
              /\ errors[2] = <<"Product not found in state">>
              /\ Len(execution_log) = 3
              /\ llm_calls = <<>>

\* C2 witness: the run of an invalid input is over.
C2_Witness ==
    /\ mode = "graph"
    /\ ParseFailed
    /\ pc = "END"
    /\ Len(trace) = 2
    /\ Len(errors) = 2

\* The sites where the caller expects JSON in the reply.
JsonSites == {"hero", "benefit", "ingredient", "competitor"}

\* The LLM collaborator failed at a call: it threw, or its reply holds no
\* parseable JSON where JSON is expected.
LlmFailed(call) ==
    \/ call.reply.kind = "throw"
    \/ /\ call.site \in JsonSites
       /\ \/ ~has_json_span(call.reply.content)
          \/ ~json_loads(call.reply).ok

\* The LLM collaborator answered a call with what the caller asked for.
LlmSound(call) ==
    /\ ~LlmFailed(call)
    /\ call.site = "questions" =>
          /\ call.reply.val # None
          /\ Len(call.reply.val.questions) > 0
    /\ call.site = "competitor" =>
          /\ DOMAIN json_loads(call.reply).val = ProductFields
          /\ product_from_json(json_loads(call.reply).val, state.product).ok
    /\ call.site = "ingredient" =>
          \A i \in 1..Len(json_loads(call.reply).val) :
              json_loads(call.reply).val[i].value.is_object
    /\ call.site = "recommendation" =>
          Len(call.reply.content) >= RECOMMENDATION_MIN_LENGTH

\* A run of execute_workflow on a valid input, with the API key configured,
\* in which nothing has gone wrong but LLM failures.
OnlyLlmFailures ==
    /\ mode = "graph"
    /\ api_key
    /\ Len(trace) >= 1
    /\ Has(state, "product")
    /\ \A i \in 1..Len(llm_calls) : LlmFailed(llm_calls[i]) \/ LlmSound(llm_calls[i])

\* C3 as stated: a run whose only failures are LLM failures never gets an
\* entry in its error list, and ends with questions, faq_page, product_page
\* and comparison_page all present.
C3_LlmFailuresAbsorbed ==
    OnlyLlmFailures =>
        /\ errors = <<>>
        /\ pc = "END" => ({"questions"} \cup PageFields) \subseteq DOMAIN state

\* C4: every run of execute_workflow terminates (a run that is not over can
\* always take a further step, and every step takes it one position further
\* along parse_data, generate_questions, gate, generate_faq,
\* generate_product_page, generate_comparison), executes the steps only in
\* that order with each step at most once, and is over either at the gate
\* with exactly the first two steps executed or after generate_comparison
\* with all five executed.
C4_TerminatesInOrder ==
    mode = "graph" =>
        /\ IsPrefix(trace, StepOrder)
        /\ pc # "END" =>
              /\ ENABLED Next
              /\ pc = IF Len(trace) = 2 /\ ~gate.taken THEN "route"
                      ELSE StepOrder[Len(trace) + 1]
        /\ pc = "END" =>
              \/ /\ trace = SubSeq(StepOrder, 1, 2)
                 /\ gate.taken
                 /\ gate.route = "error"
              \/ /\ trace = StepOrder
                 /\ gate.taken
                 /\ gate.route = "continue"

\* C4 witness: a run that took the normal exit after all five steps.
C4_Witness ==
    /\ mode = "graph"
    /\ pc = "END"
    /\ trace = StepOrder
    /\ PageFields \subseteq DOMAIN state

\* The output field of each step.
OutputField(node) ==
    CASE node = "parse_data" -> "product"
      [] node = "generate_questions" -> "questions"
      [] node = "generate_faq" -> "faq_page"
      [] node = "generate_product_page" -> "product_page"
      [] node = "generate_comparison" -> "comparison_page"

\* The step that has just run set exactly its own output field, appended
\* exactly one log entry and left the error list alone.
StepSucceeded(own) ==
    /\ Has(state', own)
    /\ ~Has(state, own)
    /\ DOMAIN state' = DOMAIN state \cup {own}
    /\ \A k \in DOMAIN state : state'[k] = state[k]
    /\ Len(log_of(state', heap')) = Len(execution_log) + 1
    /\ SubSeq(log_of(state', heap'), 1, Len(execution_log)) = execution_log
    /\ errors_of(state', heap') = errors

\* The step that has just run appended exactly one message to the error
\* list and left every content field as it was.
StepFailed ==
    /\ Len(errors_of(state', heap')) = Len(errors) + 1
    /\ SubSeq(errors_of(state', heap'), 1, Len(errors)) = errors
    /\ \A k \in ContentFields :
          /\ Has(state', k) <=> Has(state, k)
          /\ Has(state, k) => state'[k] = state[k]

\* C5: every invocation of a step, in either executor, either succeeds
\* (sets exactly its own output field, appends exactly one log entry, error
\* list unchanged) or fails (appends exactly one error message; raw_data,
\* product, questions and the three page fields unchanged), never both and
\* never neither.
C5_StepEffect ==
    [][trace' # trace =>
          LET own == OutputField(trace'[Len(trace')])
          IN (StepSucceeded(own) /\ ~StepFailed) \/ (StepFailed /\ ~StepSucceeded(own))]_vars

\* C5 witness: a run in which four steps succeeded and the last one failed.
C5_Witness ==
    /\ Len(trace) = 5
    /\ Len(errors) = 1
    /\ {"product", "questions", "faq_page", "product_page"} \subseteq DOMAIN state
    /\ ~Has(state, "comparison_page")

\* C6: no step raises past its boundary, whatever state it is invoked on
\* (the step-by-step executor invokes every step on whatever the previous
\* one left: no product, no questions, a missing raw input) and whatever
\* the LLM collaborator does: every invocation returns a state.
C6_NoStepRaises ==
    /\ ~raised
    /\ pc = "END" => (mode = "step_by_step" => Len(trace) = 5)

\* C6 witness: the step-by-step executor has invoked all five steps on a
\* state without a product, and the first step caught an exception on a
\* missing raw input.
C6_Witness ==
    /\ mode = "step_by_step"
    /\ pc = "END"
    /\ state.raw_data = None
    /\ ~Has(state, "product")
    /\ Len(errors) = 5
    /\ errors[1] = <<"Unexpected error in data parser: ", "TypeError">>

\* C7: once the gate has routed a run to "continue", generate_faq,
\* generate_product_page and generate_comparison all run, in that order,
\* whatever errors generate_faq or generate_product_page record: the run is
\* not over before all five steps have run.
C7_NoBranchAfterGate ==
    (mode = "graph" /\ gate.taken /\ gate.route = "continue") =>
        /\ IsPrefix(trace, StepOrder)
        /\ Len(trace) >= 2
        /\ pc = IF Len(trace) = 5 THEN "END" ELSE StepOrder[Len(trace) + 1]

\* C7 witness: a run whose question list was present but empty went through
\* all five steps although generate_faq recorded an error.
C7_Witness ==
    /\ mode = "graph"
    /\ pc = "END"
    /\ Has(state, "questions")
    /\ state.questions = <<>>
    /\ ~Has(state, "faq_page")
    /\ Len(errors) >= 1
    /\ trace = StepOrder

(***************************************************************************)
(* Properties of the comparison scorer.                                    *)
(***************************************************************************)
PriceRow(block) == block.matrix[1]
Flip(winner) ==
    CASE winner = "product_a" -> "product_b"
      [] winner = "product_b" -> "product_a"
      [] OTHER -> winner

\* C8 as stated: in the price dimension the winner is tie when the prices
\* differ by less than 100 rupees, and otherwise the cheaper product:
\* product_a when A's price is lower, product_b when B's price is lower.
C8_CheaperWins ==
    comparison # None =>
        LET diff == product_a.price - product_b.price
        IN PriceRow(comparison).winner =
              IF abs(diff) < 100 * Subunits THEN "tie"
              ELSE IF diff < 0 THEN "product_a"
              ELSE "product_b"

\* C9: swapping A and B turns the price winner product_a into product_b and
\* product_b into product_a, leaves a tie a tie, and leaves the reported
\* absolute rupee difference unchanged.
C9_PriceSymmetric ==
    (comparison # None /\ swapped # None) =>
        /\ PriceRow(swapped).winner = Flip(PriceRow(comparison).winner)
        /\ PriceRow(swapped).difference.rupees = PriceRow(comparison).difference.rupees

\* C9 witness: both orders computed for a pair whose prices differ by a
\* fractional amount above the threshold.
C9_Witness ==
    /\ comparison # None
    /\ swapped # None
    /\ PriceRow(comparison).winner = "product_a"
    /\ PriceRow(swapped).winner = "product_b"
    /\ (product_a.price - product_b.price) % Subunits # 0

\* C10: each of the six dimensions is counted exactly once among
\* product_a_wins, product_b_wins and ties; it counts for a side only when
\* its winner tag is exactly product_a or product_b; hence the three counts
\* add up to total_dimensions = 6, the two win counts add up to at most
\* total_dimensions, and they do not both exceed half of it.
C10_ScoresPartition ==
    comparison # None =>
        LET m == comparison.matrix
            s == comparison.scores
            Tagged(tag) == Cardinality({i \in 1..Len(m) : m[i].winner = tag})
            Others == Cardinality({i \in 1..Len(m) :
                                      m[i].winner \notin {"product_a", "product_b"}})
        IN /\ Len(m) = 6
           /\ s.total_dimensions = 6
           /\ s.product_a_wins = Tagged("product_a")
           /\ s.product_b_wins = Tagged("product_b")
           /\ s.ties = Others
           /\ s.product_a_wins + s.product_b_wins + s.ties = s.total_dimensions
           /\ s.product_a_wins + s.product_b_wins <= s.total_dimensions
           /\ ~(2 * s.product_a_wins > s.total_dimensions
                /\ 2 * s.product_b_wins > s.total_dimensions)

\* C10 witness: a comparison in which each side wins a dimension and some
\* dimension is tied or contextual.
C10_Witness ==
    /\ comparison # None
    /\ comparison.scores.product_a_wins >= 1
    /\ comparison.scores.product_b_wins >= 1
    /\ comparison.scores.ties >= 2

SkinRow(block) == block.matrix[3]
SafetyRow(block) == block.matrix[6]
ConcentrationRow(block) == block.matrix[2]
IngredientsRow(block) == block.matrix[4]

\* The text holds the letters m, i, l, d in a row, in either letter case.
MentionsMild(text) ==
    \E i \in 1..(Len(text) - 3) :
        /\ text[i] \in {"m", "M"}
        /\ text[i + 1] \in {"i", "I"}
        /\ text[i + 2] \in {"l", "L"}
        /\ text[i + 3] \in {"d", "D"}

\* C11: in the safety dimension the winner is product_a when A's side-effect
\* text contains "mild" in any letter case and B's does not, product_b in the
\* mirrored case, and tie when both or neither contain it.
C11_SafetyWinner ==
    comparison # None =>
        /\ SafetyRow(comparison).dimension = "Safety"
        /\ SafetyRow(comparison).winner =
              IF MentionsMild(product_a.side_effects) /\ ~MentionsMild(product_b.side_effects)
              THEN "product_a"
              ELSE IF MentionsMild(product_b.side_effects) /\ ~MentionsMild(product_a.side_effects)
              THEN "product_b"
              ELSE "tie"

\* C11 witness: A's text is "MILD sting" and B's is "Moderate redness", and
\* the comparison has been computed with A winning safety.
C11_Witness ==
    /\ comparison # None
    /\ product_a.side_effects = <<"M", "I", "L", "D", " ", "s", "t", "i", "n", "g">>
    /\ product_b.side_effects = <<"M", "o", "d", "e", "r", "a", "t", "e", " ", "r", "e", "d", "n", "e", "s", "s">>
    /\ SafetyRow(comparison).winner = "product_a"

DistinctCount(labels) == Cardinality({labels[i] : i \in 1..Len(labels)})

\* C12: in the skin-type coverage dimension the winner depends only on the
\* numbers of distinct skin-type labels: the product with more distinct
\* labels wins, and equal numbers give a tie whatever the labels are.
C12_SkinTypeWinner ==
    comparison # None =>
        /\ SkinRow(comparison).dimension = "Skin Type Coverage"
        /\ SkinRow(comparison).winner =
              IF DistinctCount(product_a.skin_types) > DistinctCount(product_b.skin_types)
              THEN "product_a"
              ELSE IF DistinctCount(product_b.skin_types) > DistinctCount(product_a.skin_types)
              THEN "product_b"
              ELSE "tie"

\* C12 witness: A lists three distinct labels, B lists four labels of which
\* three are distinct and none is one of A's, and the result is a tie.
C12_Witness ==
    /\ comparison # None
    /\ product_a.skin_types = <<"Oily", "Combination", "Dry">>
    /\ product_b.skin_types = <<"Normal", "Mature", "Normal", "Sensitive">>
    /\ SkinRow(comparison).winner = "tie"

\* The ingredient names two lists share once letter case is ignored.
SharedIgnoringCase(xs, ys) ==
    {lower(xs[i]) : i \in {k \in 1..Len(xs) :
                             \E j \in 1..Len(ys) : lower(xs[k]) = lower(ys[j])}}

\* C13: the Concentration and Ingredients dimensions carry the winner tag
\* contextual for every pair of products, and the Ingredients entry reports
\* the number of ingredients the two lists share ignoring letter case; for
\* an empty list on either side the function returns 0 as well.
C13_ContextualDimensions ==
    /\ comparison # None =>
          /\ ConcentrationRow(comparison).dimension = "Concentration"
          /\ ConcentrationRow(comparison).winner = "contextual"
          /\ IngredientsRow(comparison).dimension = "Ingredients"
          /\ IngredientsRow(comparison).winner = "contextual"
          /\ IngredientsRow(comparison).common_ingredients =
                Cardinality(SharedIgnoringCase(product_a.ingredients, product_b.ingredients))
          /\ _compare_ingredients([product_a EXCEPT !.ingredients = <<>>], product_b).common_ingredients = 0
          /\ _compare_ingredients(product_a, [product_b EXCEPT !.ingredients = <<>>]).common_ingredients = 0
    /\ swapped # None =>
          /\ ConcentrationRow(swapped).winner = "contextual"
          /\ IngredientsRow(swapped).winner = "contextual"
          /\ IngredientsRow(swapped).common_ingredients =
                Cardinality(SharedIgnoringCase(product_a.ingredients, product_b.ingredients))

\* C13 witness: A lists Zinc and Aloe, B lists ALOE, zinc and Zinc: two
\* shared ingredients up to letter case, and no winner.
C13_Witness ==
    /\ comparison # None
    /\ product_a.ingredients = <<<<"Z", "i", "n", "c">>, <<"A", "l", "o", "e">>>>
    /\ product_b.ingredients = <<<<"A", "L", "O", "E">>, <<"z", "i", "n", "c">>, <<"Z", "i", "n", "c">>>>
    /\ IngredientsRow(comparison).common_ingredients = 2
    /\ IngredientsRow(comparison).winner = "contextual"

(***************************************************************************)
(* src/models/templates.py, src/templates/*.py                              *)
(***************************************************************************)
\* The engine reads section_name, required_blocks and optional_blocks of a
\* section; llm_enhance is carried, format_rules is not read by any code.
TemplateSection(section_name, required_blocks, optional_blocks, llm_enhance) ==
    [section_name |-> section_name,
     required_blocks |-> required_blocks,
     optional_blocks |-> optional_blocks,
     llm_enhance |-> llm_enhance]

TemplateModel(template_type, sections) ==
    [template_type |-> template_type, sections |-> sections]

get_product_template ==
    TemplateModel("product",
        <<TemplateSection("hero", <<>>, <<>>, TRUE),
          TemplateSection("benefits", <<"benefit_block">>, <<>>, FALSE),
          TemplateSection("ingredients", <<"ingredient_block">>, <<>>, FALSE),
          TemplateSection("usage", <<"usage_block">>, <<>>, FALSE),
          TemplateSection("safety", <<"safety_block">>, <<>>, FALSE),
          TemplateSection("pricing", <<"price_block">>, <<>>, FALSE)>>)

get_comparison_template ==
    TemplateModel("comparison",
        <<TemplateSection("overview", <<>>, <<>>, FALSE),
          TemplateSection("matrix", <<"comparison_block">>, <<>>, FALSE),
          TemplateSection("detailed_comparison", <<>>, <<>>, TRUE),
          TemplateSection("recommendation", <<>>, <<>>, TRUE)>>)

(***************************************************************************)
(* src/templates/template_engine.py                                        *)
(***************************************************************************)
\* TemplateEngine(): no block registered.
TemplateEngine == EmptyDict

register_block(registered_blocks, block_name, block_func) ==
    Put(registered_blocks, block_name, block_func)

\* registered_blocks maps a block name to a callable, here the name of the
\* function registered.
create_default_engine ==
    register_block(
    register_block(
    register_block(
    register_block(
    register_block(
    register_block(TemplateEngine,
        "benefit_block", "generate_benefit_block"),
        "ingredient_block", "generate_ingredient_block"),
        "usage_block", "generate_usage_block"),
        "safety_block", "generate_safety_block"),
        "price_block", "generate_price_block"),
        "comparison_block", "generate_comparison_block")

\* What a logic block called with the product alone gives: its return value
\* (None when it runs off its end) or the exception it raises.
block_outcome(r) ==
    IF ~r.ok THEN Err(r.exc)
    ELSE IF r.none THEN Ok(None)
    ELSE Ok(r.val)

\* generate_comparison_block(product_a, product_b) called with one positional
\* argument: Python raises TypeError before the body runs.
comparison_block_call(product) == Err("TypeError")

\* block_func(product): the call the engine makes.  env holds what the call
\* depends on besides the product: the API key and the LLM's replies.  Two
\* callables stand for blocks a caller of register_block supplies: one that
\* returns a content mapping and one that raises.
block_func_call(block_func, product, env) ==
    CASE block_func = "generate_benefit_block" ->
            block_outcome(generate_benefit_block(product, TRUE, env.key, env.r_benefit))
      [] block_func = "generate_ingredient_block" ->
            block_outcome(generate_ingredient_block(product, TRUE, env.key, env.r_ingredient))
      [] block_func = "generate_usage_block" -> Ok(generate_usage_block(product))
      [] block_func = "generate_safety_block" -> Ok(generate_safety_block(product))
      [] block_func = "generate_price_block" -> Ok(generate_price_block(product))
      [] block_func = "generate_comparison_block" -> comparison_block_call(product)
      [] block_func = "returning_block" -> Ok([title |-> "Content"])
      [] block_func = "raising_block" -> Err("RuntimeError")

\* The names of a list that are registered, in listed order.
registered_names(registered_blocks, block_names) ==
    SelectSeq(block_names, LAMBDA block_name : Has(registered_blocks, block_name))

\* The outcome of each call of a loop over block names, in order.
block_calls(registered_blocks, block_names, product, env) ==
    Bind(registered_names(registered_blocks, block_names), LAMBDA names :
    [i \in 1..Len(names) |->
        Bind(block_func_call(registered_blocks[names[i]], product, env), LAMBDA block_result_ :
        [name |-> names[i], outcome |-> block_result_])])

block_entry(call, required) ==
    [name |-> call.name, content |-> call.outcome.val, required |-> required]

call_returned(call) == call.outcome.ok
call_raised(call) == ~call.outcome.ok

\* A render_section whose optional loop has no try/except.
render_section_without_try(registered_blocks, section, product, env) ==
    Bind(block_calls(registered_blocks, section.required_blocks \o section.optional_blocks,
                     product, env), LAMBDA calls :
    IF \E i \in 1..Len(calls) : call_raised(calls[i])
    THEN Err(SelectSeq(calls, call_raised)[1].outcome.exc)
    ELSE Ok([section_name |-> section.section_name,
             blocks |-> [i \in 1..Len(calls) |->
                            block_entry(calls[i],
                                i <= Len(registered_names(registered_blocks,
                                                          section.required_blocks)))]]))

\* The first required block that raises ends the call with its exception
\* (the later blocks are not called); an optional block that raises is
\* skipped.
render_section(registered_blocks, section, product, env) ==
    Bind(block_calls(registered_blocks, section.required_blocks, product, env), LAMBDA required :
    IF \E i \in 1..Len(required) : call_raised(required[i])
    THEN Err(SelectSeq(required, call_raised)[1].outcome.exc)
    ELSE Bind(block_calls(registered_blocks, section.optional_blocks, product, env), LAMBDA optional :
         Bind(SelectSeq(optional, call_returned), LAMBDA kept :
         Ok([section_name |-> section.section_name,
             blocks |-> [i \in 1..Len(required) |-> block_entry(required[i], TRUE)]
                        \o [i \in 1..Len(kept) |-> block_entry(kept[i], FALSE)]]))))

section_rendered(r) == r.ok
section_failed(r) == ~r.ok

render_template(registered_blocks, template, product, env) ==
    Bind([i \in 1..Len(template.sections) |->
             render_section(registered_blocks, template.sections[i], product, env)],
         LAMBDA rendered :
    IF \E i \in 1..Len(rendered) : section_failed(rendered[i])
    THEN Err(SelectSeq(rendered, section_failed)[1].exc)
    ELSE Ok([template_type |-> template.template_type,
             sections |-> [i \in 1..Len(rendered) |-> rendered[i].val]]))

(***************************************************************************)
(* The template engine on its own: blocks are registered on an engine,     *)
(* then one section or one template is rendered.                           *)
(***************************************************************************)
\* A section lists at most this many required and this many optional blocks.
MaxBlocks == 2

\* Names a caller registers blocks under, and a name nothing is registered under.
TestBlockNames == {"first_block", "second_block"}
AbsentBlockName == "absent_block"
TestBlockFuncs == {"returning_block", "raising_block"}

TestSections ==
    {TemplateSection("test", required_blocks, optional_blocks, FALSE) :
        required_blocks \in SeqsUpTo(TestBlockNames \cup {AbsentBlockName}, MaxBlocks),
        optional_blocks \in SeqsUpTo(TestBlockNames \cup {AbsentBlockName}, MaxBlocks)}

SmallSections ==
    {s \in TestSections : Len(s.required_blocks) + Len(s.optional_blocks) <= 1}

TestTemplates ==
    {TemplateModel("test", <<s1, s2>>) : s1 \in SmallSections, s2 \in SmallSections}

ShippedTemplates == {get_product_template, get_comparison_template}

EngineProducts == {ProductModel(RawGlow).val, ProductModel(RawZinc).val}

\* What a block call depends on besides the product.
Envs ==
    [key : BOOLEAN, r_benefit : BenefitReplies, r_ingredient : IngredientReplies]

TestEnv ==
    [key |-> TRUE, r_benefit |-> Throw, r_ingredient |-> Throw]

EngineInit ==
    /\ engine \in {TemplateEngine, create_default_engine}
    /\ render_call = None
    /\ render_result = None
    /\ NotRunning
    /\ ScorerIdle
    /\ BlocksIdle

RegisterBlock ==
    /\ render_call = None
    /\ \E block_name \in TestBlockNames, block_func \in TestBlockFuncs :
          engine' = register_block(engine, block_name, block_func)
    /\ UNCHANGED <<render_call, render_result>>
    /\ UNCHANGED <<wf_vars, sc_vars, bl_vars>>

Rendered(call, result) ==
    /\ render_call' = call
    /\ render_result' = result
    /\ UNCHANGED engine
    /\ UNCHANGED <<wf_vars, sc_vars, bl_vars>>

RenderSection ==
    /\ render_call = None
    /\ \E section \in TestSections, product \in {ProductModel(RawGlow).val} :
       \E result \in {render_section(engine, section, product, TestEnv)} :
          Rendered([op |-> "render_section", section |-> section,
                    product |-> product, env |-> TestEnv], result)

RenderTestTemplate ==
    /\ render_call = None
    /\ \E template \in TestTemplates, product \in {ProductModel(RawGlow).val} :
       \E result \in {render_template(engine, template, product, TestEnv)} :
          Rendered([op |-> "render_template", template |-> template,
                    product |-> product, env |-> TestEnv], result)

RenderShippedTemplate ==
    /\ render_call = None
    /\ \E template \in ShippedTemplates, product \in EngineProducts, env \in Envs :
       \E result \in {render_template(engine, template, product, env)} :
          Rendered([op |-> "render_template", template |-> template,
                    product |-> product, env |-> env], result)

EngineNext ==
    \/ RegisterBlock
    \/ RenderSection
    \/ RenderTestTemplate
    \/ RenderShippedTemplate

EngineSpec == EngineInit /\ [][EngineNext]_vars

(***************************************************************************)
(* Properties of the template engine.                                      *)
(***************************************************************************)
\* In the render call made, the block registered under the name raises /
\* returns when called with the product.
BlockRaises(block_name) ==
    /\ Has(engine, block_name)
    /\ ~block_func_call(engine[block_name], render_call.product, render_call.env).ok
BlockReturns(block_name) ==
    /\ Has(engine, block_name)
    /\ block_func_call(engine[block_name], render_call.product, render_call.env).ok
BlockException(block_name) ==
    block_func_call(engine[block_name], render_call.product, render_call.env).exc

RequiredRaises(section) ==
    \E i \in 1..Len(section.required_blocks) : BlockRaises(section.required_blocks[i])
\* The exception of the first required block of the section that raises.
RequiredException(section) ==
    BlockException(SelectSeq(section.required_blocks, BlockRaises)[1])

IsOptionalEntry(entry) == ~entry.required
IsRequiredEntry(entry) == entry.required
EntryNames(entries) == [i \in 1..Len(entries) |-> entries[i].name]

\* The rendered section lacks exactly the optional blocks that raised.
OptionalRaisersOmitted(section, rendered) ==
    EntryNames(SelectSeq(rendered.blocks, IsOptionalEntry))
        = SelectSeq(section.optional_blocks, BlockReturns)

\* C14: if a required block of a section raises, render_section fails with
\* that exception, and so does a render_template call over a template with
\* such a section; if only optional blocks raise, the call returns normally
\* and the result lacks exactly the optional blocks that raised.
C14_FailurePolicy ==
    render_call # None =>
        /\ render_call.op = "render_section" =>
              LET section == render_call.section
              IN IF RequiredRaises(section)
                 THEN /\ ~render_result.ok
                      /\ render_result.exc = RequiredException(section)
                 ELSE /\ render_result.ok
                      /\ OptionalRaisersOmitted(section, render_result.val)
        /\ render_call.op = "render_template" =>
              LET sections == render_call.template.sections
              IN IF \E i \in 1..Len(sections) : RequiredRaises(sections[i])
                 THEN /\ ~render_result.ok
                      /\ render_result.exc =
                            RequiredException(SelectSeq(sections, RequiredRaises)[1])
                 ELSE /\ render_result.ok
                      /\ \A i \in 1..Len(sections) :
                            OptionalRaisersOmitted(sections[i], render_result.val.sections[i])

\* C14 witness: a section whose only block is an optional block that raises
\* has been rendered, and the call returned a section with zero blocks.
C14_Witness ==
    /\ render_call # None
    /\ render_call.op = "render_section"
    /\ render_call.section.required_blocks = <<>>
    /\ render_call.section.optional_blocks = <<"first_block">>
    /\ Has(engine, "first_block")
    /\ engine["first_block"] = "raising_block"
    /\ render_result.ok
    /\ render_result.val.blocks = <<>>

\* C15 as stated: when no block of the section raises, render_section
\* returns a blocks list holding one entry with required = true for each
\* name in required_blocks, in the listed order, before every optional
\* block's entry.
C15_EveryRequiredInvoked ==
    (/\ render_call # None
     /\ render_call.op = "render_section"
     /\ \A i \in 1..Len(render_call.section.required_blocks) :
           ~BlockRaises(render_call.section.required_blocks[i])
     /\ \A i \in 1..Len(render_call.section.optional_blocks) :
           ~BlockRaises(render_call.section.optional_blocks[i]))
    => /\ render_result.ok
       /\ EntryNames(SelectSeq(render_result.val.blocks, IsRequiredEntry))
             = render_call.section.required_blocks
       /\ \A i, j \in 1..Len(render_result.val.blocks) :
             (render_result.val.blocks[i].required /\ ~render_result.val.blocks[j].required)
                => i < j

\* C16 as stated: render_template with the default engine on the product
\* template and on the comparison template returns, without raising, one
\* rendered section per template section, in template order.
C16_DefaultEngineRenders ==
    (/\ render_call # None
     /\ render_call.op = "render_template"
     /\ render_call.template \in ShippedTemplates
     /\ engine = create_default_engine)
    => /\ render_result.ok
       /\ [i \in 1..Len(render_result.val.sections) |->
              render_result.val.sections[i].section_name]
          = [i \in 1..Len(render_call.template.sections) |->
              render_call.template.sections[i].section_name]

(***************************************************************************)
(* Functions on their own: one call of generate_benefit_block or           *)
(* generate_ingredient_block on a validated product, with or without LLM   *)
(* use, or of another helper of the agents and blocks.                     *)
(***************************************************************************)
BlockProducts == {ProductModel(raw).val : raw \in ScorerProfiles}

BlocksInit ==
    /\ block_call = None
    /\ block_result = None
    /\ NotRunning
    /\ ScorerIdle
    /\ EngineIdle

Called(call, result) ==
    /\ block_call' = call
    /\ block_result' = result
    /\ UNCHANGED <<wf_vars, sc_vars, en_vars>>

CallBenefitBlock ==
    /\ block_call = None
    /\ \E product \in BlockProducts, use_llm \in BOOLEAN, key \in BOOLEAN,
          reply \in BenefitReplies :
       \E result \in {generate_benefit_block(product, use_llm, key, reply)} :
          Called([block |-> "benefit", product |-> product, use_llm |-> use_llm,
                  key |-> key, reply |-> reply], result)

CallIngredientBlock ==
    /\ block_call = None
    /\ \E product \in BlockProducts, use_llm \in BOOLEAN, key \in BOOLEAN,
          reply \in IngredientReplies :
       \E result \in {generate_ingredient_block(product, use_llm, key, reply)} :
          Called([block |-> "ingredient", product |-> product, use_llm |-> use_llm,
                  key |-> key, reply |-> reply], result)

\* A list handed to _select_best_questions holds at most this many questions.
MaxSelectLen == 4
\* The largest max_count handed to _select_best_questions.
MaxCount == 3

SelectPool ==
    {[category |-> category, question |-> question] :
        category \in {<<"u", "s", "a", "g", "e">>, <<"s", "a", "f", "e", "t", "y">>, <<"p", "u", "r", "c", "h", "a", "s", "e">>},
        question \in {"How do I apply it?", "Is it right for me?"}}

CallSelectBestQuestions ==
    /\ block_call = None
    /\ \E questions \in SeqsUpTo(SelectPool, MaxSelectLen), max_count \in 0..MaxCount :
       \E result \in {_select_best_questions(questions, max_count)} :
          Called([block |-> "select", questions |-> questions, max_count |-> max_count],
                 [ok |-> TRUE, none |-> FALSE, val |-> result])

\* Prices on both sides of each positioning threshold, in rupees times Subunits.
TierPrices ==
    {1, 500 * Subunits - 1, 500 * Subunits, 699 * Subunits, 1000 * Subunits - 1,
     1000 * Subunits, 2000 * Subunits - 1, 2000 * Subunits, 5000 * Subunits}

PriceProducts ==
    {ProductModel([raw EXCEPT !.price = p]).val : raw \in ScorerProfiles, p \in TierPrices}

CallPriceBlock ==
    /\ block_call = None
    /\ \E product \in PriceProducts :
       \E result \in {generate_price_block(product)} :
          Called([block |-> "price", product |-> product],
                 [ok |-> TRUE, none |-> FALSE, val |-> result])

\* Two different reply texts and a failing invoke.
AnswerTexts ==
    {Throw, Text(<<"o", "k">>, Err("JSONDecodeError")), Text(<<"A", "p", "p", "l", "y", " ", "t", "w", "i", "c", "e", " ", "a", " ", "d", "a", "y", ".">>, Err("JSONDecodeError"))}
MaxSelected == 2

CallGenerateAnswers ==
    /\ block_call = None
    /\ \E product \in BlockProducts, questions \in SeqsUpTo(SelectPool, MaxSelected),
          key \in BOOLEAN, reply \in AnswerTexts :
       \E result \in {_generate_answers(product, questions, key, reply)} :
          Called([block |-> "answers", product |-> product, questions |-> questions,
                  key |-> key, reply |-> reply], result)

BlocksNext ==
    \/ CallBenefitBlock
    \/ CallIngredientBlock
    \/ CallSelectBestQuestions
    \/ CallPriceBlock
    \/ CallGenerateAnswers

BlocksSpec == BlocksInit /\ [][BlocksNext]_vars

(***************************************************************************)
(* Properties of the benefit and ingredient blocks.                        *)
(***************************************************************************)
\* The call returned a value (it neither raised nor returned None).
ReturnedContent == block_result.ok /\ ~block_result.none

\* The reply of the LLM call carries a JSON object the caller can parse.
ReplyCarriesJson(reply) ==
    /\ reply.kind # "throw"
    /\ has_json_span(reply.content)
    /\ reply.json.ok

\* C17 as stated: with the LLM in use, the benefit block returns a content
\* mapping with title, benefits and summary whatever the LLM call does, and
\* when the call throws, or no JSON object can be located in the reply, or
\* the JSON fails to parse, the result is the rule-based fallback with one
\* entry per product benefit.
C17_BenefitBlockWellFormed ==
    (/\ block_call # None
     /\ block_call.block = "benefit"
     /\ block_call.use_llm
     /\ block_call.key)
    => /\ ReturnedContent
       /\ DOMAIN block_result.val = {"title", "benefits", "summary"}
       /\ ~ReplyCarriesJson(block_call.reply) =>
             /\ block_result.val = _generate_benefit_block_rule_based(block_call.product)
             /\ Len(block_result.val.benefits) = Len(block_call.product.benefits)

IngredientNames(details) == {details[i].ingredient : i \in 1..Len(details)}
IsGenericEntry(entry) == entry.benefits = <<"Part of proprietary formula">>

\* C18 as stated: the ingredient block never raises, and every ingredient
\* of the product that the knowledge table does not hold has an entry in
\* the output, which is the generic filler entry when LLM use is disabled,
\* the LLM call throws, or its reply holds no parseable JSON.
C18_NoIngredientDropped ==
    (/\ block_call # None
     /\ block_call.block = "ingredient"
     /\ (block_call.key \/ ~block_call.use_llm))
    => /\ ReturnedContent
       /\ \A i \in 1..Len(block_call.product.ingredients) :
             IsUnknown(block_call.product.ingredients[i]) =>
                \E j \in 1..Len(block_result.val.ingredients) :
                   /\ block_result.val.ingredients[j].ingredient
                         = block_call.product.ingredients[i]
                   /\ (~block_call.use_llm \/ ~ReplyCarriesJson(block_call.reply))
                         => IsGenericEntry(block_result.val.ingredients[j])

(***************************************************************************)
(* Properties of main.py's output validation and saving.                   *)
(***************************************************************************)
RequiredFields == {"product", "questions", "faq_page", "product_page", "comparison_page"}
SeqRange(s) == {s[i] : i \in 1..Len(s)}

\* C19: validate_workflow_output reports in missing_outputs exactly the
\* fields among product, questions, faq_page, product_page and
\* comparison_page that the state lacks, each once; sets
\* all_required_outputs_present exactly when none is missing; and changes
\* nothing of the run: the state, its lists, and the steps executed stay as
\* they were.
C19_ValidationAdvisory ==
    [][validation' # validation =>
          /\ SeqRange(validation'.missing_outputs) = RequiredFields \ DOMAIN state
          /\ Len(validation'.missing_outputs) = Cardinality(RequiredFields \ DOMAIN state)
          /\ validation'.all_required_outputs_present <=> (validation'.missing_outputs = <<>>)
          /\ state' = state
          /\ heap' = heap
          /\ trace' = trace
          /\ llm_calls' = llm_calls
          /\ pc' = pc]_vars

\* C19 witness: the validation of a run that halted at the gate after a
\* successful parse has reported the four fields that are missing.
C19_Witness ==
    /\ validation # None
    /\ Has(state, "product")
    /\ ~validation.all_required_outputs_present
    /\ validation.missing_outputs = <<"questions", "faq_page", "product_page", "comparison_page">>

\* The error messages with which the step producing a page reports failure.
FailureMessages(node) ==
    CASE node = "generate_faq" ->
            {"FAQ generation failed: ", "Product not found in state",
             "Questions not found in state"}
      [] node = "generate_product_page" ->
            {"Product page generation failed: ", "Product not found in state"}
      [] node = "generate_comparison" ->
            {"Comparison generation failed: ", "Product not found in state"}

\* The step was executed in this run and reported no failure.
SucceededInRun(node) ==
    /\ \E i \in 1..Len(trace) : trace[i] = node
    /\ \A i \in 1..Len(errors) : errors[i][1] \notin FailureMessages(node)

Producer(filename) ==
    CASE filename = "faq.json" -> "generate_faq"
      [] filename = "product_page.json" -> "generate_product_page"
      [] filename = "comparison_page.json" -> "generate_comparison"

\* C20: save_outputs writes faq.json, product_page.json and
\* comparison_page.json each exactly when the step producing it was
\* executed in this run and succeeded: a step that failed or never ran
\* leaves its file unwritten, whatever happened to the other two.
C20_ArtifactsOfSuccessfulSteps ==
    files # None =>
        /\ files.written \subseteq {"faq.json", "product_page.json", "comparison_page.json"}
        /\ \A filename \in {"faq.json", "product_page.json", "comparison_page.json"} :
              filename \in files.written <=> SucceededInRun(Producer(filename))

\* C20 witness: in a run that passed the gate the product-page step failed
\* and the other two page steps succeeded; two files have been written.
C20_Witness ==
    /\ files # None
    /\ Len(trace) = 5
    /\ files.written = {"faq.json", "comparison_page.json"}

(***************************************************************************)
(* Properties of the FAQ question selection.                               *)
(***************************************************************************)
Min(a, b) == IF a <= b THEN a ELSE b

\* Among the questions qs: the position of question i within its category,
\* and the position at which its category is first met.
RankInCategory(qs, i) ==
    Cardinality({j \in 1..i : qs[j].category = qs[i].category})
FirstOfCategory(qs, i) ==
    CHOOSE j \in 1..i :
        /\ qs[j].category = qs[i].category
        /\ \A k \in 1..(j - 1) : qs[k].category # qs[i].category
CategoriesPresent(qs) == {qs[i].category : i \in 1..Len(qs)}

\* The questions within the per-category quota, and their order: by
\* category in first-encounter order, then by position.
WithinQuota(qs, quota) == {i \in 1..Len(qs) : RankInCategory(qs, i) <= quota}
Before(qs, i, j) ==
    \/ FirstOfCategory(qs, i) < FirstOfCategory(qs, j)
    \/ FirstOfCategory(qs, i) = FirstOfCategory(qs, j) /\ i < j
PlaceAmong(qs, chosen, i) == Cardinality({j \in chosen : Before(qs, j, i)}) + 1

ExpectedSelection(qs, max_count) ==
    IF Len(qs) <= max_count THEN qs
    ELSE LET quota == max_count \div Cardinality(CategoriesPresent(qs))
             chosen == WithinQuota(qs, quota)
         IN [p \in 1..Min(Cardinality(chosen), max_count) |->
                qs[CHOOSE i \in chosen : PlaceAmong(qs, chosen, i) = p]]

\* C21: _select_best_questions returns a list of at most max_count questions
\* unchanged; for a longer list it returns, category by category in
\* first-encounter order, the first floor(max_count / categories present)
\* questions of each category in encounter order, cut to max_count: never
\* more than max_count questions, and nothing is added to fill up.
C21_SelectionByQuota ==
    (block_call # None /\ block_call.block = "select") =>
        /\ block_result.val = ExpectedSelection(block_call.questions, block_call.max_count)
        /\ Len(block_result.val) <= block_call.max_count
              \/ Len(block_call.questions) <= block_call.max_count

\* C21 witness: four questions of two interleaved categories with
\* max_count 3: one question per category is selected, fewer than max_count.
C21_Witness ==
    /\ block_call # None
    /\ block_call.block = "select"
    /\ Len(block_call.questions) = 4
    /\ block_call.max_count = 3
    /\ Cardinality(CategoriesPresent(block_call.questions)) = 2
    /\ block_call.questions[1].category # block_call.questions[2].category
    /\ Len(block_result.val) = 2

(***************************************************************************)
(* Properties of the price block.                                          *)
(***************************************************************************)
PremiumHighlight == <<"Contains premium, research-backed ingredients">>
ListsPremiumName(product) ==
    \E i \in 1..Len(product.ingredients) :
        product.ingredients[i] \in {<<"V", "i", "t", "a", "m", "i", "n", " ", "C">>, <<"H", "y", "a", "l", "u", "r", "o", "n", "i", "c", " ", "A", "c", "i", "d">>, <<"R", "e", "t", "i", "n", "o", "l">>, <<"N", "i", "a", "c", "i", "n", "a", "m", "i", "d", "e">>}

\* C22: the price block puts the price into exactly one positioning tier:
\* below 500 rupees Budget-Friendly, from 500 and below 1000 Mid-Range, from
\* 1000 and below 2000 Premium, from 2000 Luxury; value_highlights is never
\* empty, and holds the premium-ingredient highlight when the product lists
\* Vitamin C, Hyaluronic Acid, Retinol or Niacinamide.
C22_PriceTiers ==
    (block_call # None /\ block_call.block = "price") =>
        LET price == block_call.product.price
            block == block_result.val
        IN /\ (price < 500 * Subunits) <=> (block.positioning = "Budget-Friendly")
           /\ (500 * Subunits <= price /\ price < 1000 * Subunits)
                 <=> (block.positioning = "Mid-Range")
           /\ (1000 * Subunits <= price /\ price < 2000 * Subunits)
                 <=> (block.positioning = "Premium")
           /\ (2000 * Subunits <= price) <=> (block.positioning = "Luxury")
           /\ block.value_highlights # <<>>
           /\ ListsPremiumName(block_call.product) =>
                 \E i \in 1..Len(block.value_highlights) :
                    block.value_highlights[i] = PremiumHighlight

\* C22 witness: a product priced 699 rupees that lists Vitamin C is
\* Mid-Range and its highlights include the premium-ingredient one.
C22_Witness ==
    /\ block_call # None
    /\ block_call.block = "price"
    /\ block_call.product.price = 699 * Subunits
    /\ ListsPremiumName(block_call.product)
    /\ block_result.val.positioning = "Mid-Range"
    /\ \E i \in 1..Len(block_result.val.value_highlights) :
          block_result.val.value_highlights[i] = PremiumHighlight

(***************************************************************************)
(* Validation of the product record.                                       *)
(***************************************************************************)
ListFields == {"skin_types", "ingredients", "benefits"}
HasEmptyList(data) ==
    /\ data # None
    /\ \E f \in ListFields : Has(data, f) /\ data[f] = <<>>
ParserHasRun == trace # <<>> /\ trace[1] = "parse_data"

\* C23: a product record with an empty skin-type, ingredient or benefit list
\* fails construction whatever its other fields; once the parser has run on
\* such a record the error list is not empty and the product is absent, and
\* stays so for the rest of the run.
C23_EmptyListRejected ==
    (Has(state, "raw_data") /\ HasEmptyList(state.raw_data)) =>
        /\ ~ProductModel(state.raw_data).ok
        /\ ParserHasRun =>
              /\ ~Has(state, "product")
              /\ errors_of(state, heap) # <<>>
              /\ errors_of(state, heap)[1] = <<"Product validation failed: ", "ValidationError">>

\* C23 witness: the parser has run on a record whose only defect is an
\* empty benefit list, and has recorded the validation error.
C23_Witness ==
    /\ ParserHasRun
    /\ state.raw_data # None
    /\ Has(state.raw_data, "benefits")
    /\ state.raw_data.benefits = <<>>
    /\ ProductModel([state.raw_data EXCEPT !.benefits = <<<<"G", "l", "o", "w">>>>]).ok
    /\ ~Has(state, "product")
    /\ errors_of(state, heap) # <<>>

(***************************************************************************)
(* The step-by-step executor against the compiled graph.                   *)
(***************************************************************************)
\* C24: execute_workflow_step_by_step runs no step that the gate of
\* execute_workflow would have prevented: whenever it is about to run the
\* FAQ step, the gate's condition for continuing (no error recorded,
\* questions present) holds, so that its final state has the fields and the
\* error list of the graph's run on the same input.
C24_StepByStepEquivalent ==
    (mode = "step_by_step" /\ pc = "generate_faq") =>
        should_continue_after_questions(state, heap).route = "continue"

(***************************************************************************)
(* The snapshots of the step-by-step executor.                             *)
(***************************************************************************)
SnapshotKeys ==
    <<"after_parser", "after_questions", "after_faq", "after_product", "after_comparison">>

\* C25: each snapshot holds the state as of its step: the error list and the
\* execution log seen through a snapshot already taken are not changed by a
\* later step.
C25_SnapshotsFrozen ==
    [][\A k \in DOMAIN states :
          /\ errors_of(states[k], heap') = errors_of(states[k], heap)
          /\ log_of(states[k], heap') = log_of(states[k], heap)]_vars

(***************************************************************************)
(* The error list and the execution log.                                   *)
(***************************************************************************)
Last(s) == s[Len(s)]

\* C26: the error list starts empty; the error list and the execution log
\* are append-only (every step leaves the old list as a prefix of the new
\* one); and a step that records an error appends exactly one error and,
\* with it, one log entry carrying that error.
C26_AppendOnly ==
    /\ errors = <<>>
    /\ [][/\ IsPrefix(errors, errors')
          /\ IsPrefix(execution_log, execution_log')
          /\ errors' # errors =>
                /\ Len(errors') = Len(errors) + 1
                /\ Len(execution_log') = Len(execution_log) + 1
                /\ Last(execution_log') = <<"Error: ", Last(errors')>>]_vars

\* C26 witness: two errors have been appended one after the other, each
\* with its log entry behind the entry the log started with.
C26_Witness ==
    /\ Len(errors) = 2
    /\ Len(execution_log) = 3
    /\ execution_log[2] = <<"Error: ", errors[1]>>
    /\ execution_log[3] = <<"Error: ", errors[2]>>

(***************************************************************************)
(* The end of execute_workflow.                                            *)
(***************************************************************************)
GraphRunOver == mode = "graph" /\ pc = "END" /\ ~raised

\* C27: at the end of execute_workflow all five required fields are present
\* exactly when the error list is empty; validate_workflow_output reports
\* all_required_outputs_present exactly for the runs that recorded no error.
C27_CompleteIffNoError ==
    GraphRunOver =>
        /\ (\A f \in RequiredFields : Has(state, f)) <=> (errors = <<>>)
        /\ validation # None =>
              (validation.all_required_outputs_present <=> (validation.errors = <<>>))

\* C27 witness: a validated run with all five fields and no error, which
\* the report calls complete.
C27_Witness ==
    /\ GraphRunOver
    /\ validation # None
    /\ validation.all_required_outputs_present
    /\ errors = <<>>
    /\ \A f \in RequiredFields : Has(state, f)


(***************************************************************************)
(* What the presence of an artifact says about its inputs.                 *)
(***************************************************************************)
\* C28: an artifact in the state implies its inputs: faq_page implies that
\* product and questions are present and the questions are non-empty;
\* product_page, comparison_page and questions each imply product.
C28_ArtifactImpliesInputs ==
    /\ Has(state, "faq_page") =>
          /\ Has(state, "product")
          /\ Has(state, "questions")
          /\ state.questions # <<>>
    /\ Has(state, "product_page") => Has(state, "product")
    /\ Has(state, "comparison_page") => Has(state, "product")
    /\ Has(state, "questions") => Has(state, "product")

\* C28 witness: a state that holds all three pages, the product and a
\* non-empty question list.
C28_Witness ==
    /\ PageFields \subseteq DOMAIN state
    /\ Has(state, "product")
    /\ Has(state, "questions")
    /\ state.questions # <<>>

(***************************************************************************)
(* The state the gate sees.                                                *)
(***************************************************************************)
NoQuestionsMessage == <<"No questions were generated">>

\* C29: once generate_questions has returned, exactly one of "questions is
\* present" and "the error list is non-empty" holds; so the gate never finds
\* an empty error list together with missing questions, and its branch that
\* records "No questions were generated" is never taken.
C29_QuestionsXorErrors ==
    /\ (Len(trace) = 2 /\ ~raised) => (Has(state, "questions") <=> (errors = <<>>))
    /\ gate.taken => ~(gate.errors = 0 /\ ~gate.questions)
    /\ \A i \in 1..Len(errors) : errors[i] # NoQuestionsMessage

\* C29 witness: the gate has been evaluated on a state without questions,
\* and found the error that explains it.
C29_Witness ==
    /\ gate.taken
    /\ ~gate.questions
    /\ gate.errors > 0
    /\ gate.route = "error"

(***************************************************************************)
(* The answers of the FAQ page.                                            *)
(***************************************************************************)
AnswersCalled == block_call # None /\ block_call.block = "answers"

====
